---------------------------- MODULE Spec2Model ----------------------------
(***************************************************************************)
(* rustjoycal: calibration wizard for Nintendo Switch controllers.         *)
(*                                                                         *)
(* src/src/controller.rs  Controller: the HID session (device handle,      *)
(*                        controller_type, timing_byte), the device-info   *)
(*                        query, enable_standard_input, read_stick_data,   *)
(*                        write_spi_data and the four-write commit.        *)
(* src/src/main.rs        CalibrationApp: the wizard state, its click      *)
(*                        handlers and the per-frame stick poll.           *)
(*                                                                         *)
(* The HID device is the environment.  Every device.write either succeeds  *)
(* or fails, every read_timeout returns a report, nothing (Ok(0)) or an    *)
(* error.  The loops of the Controller are recursive operators over the    *)
(* outcomes the device delivers.  The frame poll and the click handlers    *)
(* are taken as two threads of control that contend for the Mutex around   *)
(* the Controller; write_calibration keeps it from its first write to the  *)
(* return of its last.                                                     *)
(*                                                                         *)
(* Spec         the wizard from CalibrationApp::new, one step per handler  *)
(*              and per write_spi_data call of a commit.                   *)
(* SpecCommit   the commit from Review, one step per attempt of a          *)
(*              write_spi_data call, with the frame poll beside it.        *)
(* SpecPayload  write_calibration_to_device as a function from its inputs  *)
(*              to the four payloads, applied to two commits.              *)
(* SpecSweep    the two sampling phases and the deadzone choice, from       *)
(*              CalibrateCenter to Review, over a sweep of stick samples.  *)
(* SpecPoll     read_stick_data as a function of what the device has        *)
(*              buffered and of what its blocking read returns.            *)
(* SpecRemap    remap_calibrated_axis as a function of its five arguments.  *)
(* SpecWindow   one attempt of get_device_info and of write_spi_data as a   *)
(*              function of the reports its polling window returns.        *)
(* SpecAck      the write_spi_data calls of one commit against a device     *)
(*              that acknowledges every command once, in order, possibly   *)
(*              after the polling window of the attempt has elapsed.       *)
(* SpecDrain    read_stick_data read by read; SpecDrainFair adds that the   *)
(*              calling thread keeps running.                              *)
(* SpecCodec    encode_stick_params followed by the stick decode of         *)
(*              read_stick_data, applied to pairs of 12-bit values.        *)
(***************************************************************************)
EXTENDS Integers, Sequences, FiniteSets, TLC

(***************************************************************************)
(* Program constants.                                                      *)
(***************************************************************************)
\* controller.rs:12-15, SPI memory addresses (0x603D, 0x6046, 0x6089, 0x609B)
LEFT_STICK_CAL_ADDR == 24637
RIGHT_STICK_CAL_ADDR == 24646
LEFT_STICK_PARAMS_ADDR == 24713
RIGHT_STICK_PARAMS_ADDR == 24731
\* controller.rs:199-200
MAX_ATTEMPTS == 20
MAX_RETRIES == 8
\* controller.rs:116 and 123: the literal loop limits of get_device_info
INFO_ATTEMPTS == 20
INFO_RETRIES == 8
\* controller.rs:240-241, range_ratio_l / range_ratio_r (0xF80)
RANGE_RATIO == 3968
\* main.rs:201, padding when the outer deadzone is enabled (0x050)
OUTER_PADDING == 80
\* main.rs:67-74, seed of the running extent (0xFFF) and main.rs:204 clamp
SEED_MIN == 4095
AXIS_MAX == 4095
\* controller.rs:72-75, StickData::default (0x800)
STICK_REST == 2048
\* u16 arithmetic
U16 == 65536
\* length of an output/input report buffer (controller.rs:112, 201, 215)
REPORT_LEN == 49
\* report offsets inspected by the polling loops (controller.rs:126, 218)
OFF_ACK == 13
OFF_SUB == 14
\* last offset of the firmware and MAC bytes (controller.rs:130, 0x18)
OFF_INFO_END == 24
\* response bytes matched (controller.rs:126: 0x82, 0x02; 218: 0x80, 0x11)
INFO_ACK == 130
INFO_SUB == 2
SPI_ACK == 128
SPI_SUB == 17

(***************************************************************************)
(* Bounds of the model.                                                    *)
(***************************************************************************)
\* reports the device delivers during one polling window or one frame
MaxBurst == 2
\* the latest attempt of a call in which the device answers or device.write
\* fails, when the call is followed attempt by attempt
MaxLate == 2
\* the same when a handler is followed call by call
MaxAnswer == 1
\* times the user presses "Start Calibration Wizard" / "WRITE to Controller"
MaxStarts == 2
MaxCommits == 2

(***************************************************************************)
(* u16 helpers.                                                            *)
(***************************************************************************)
Min(a, b) == IF a <= b THEN a ELSE b
Max(a, b) == IF a >= b THEN a ELSE b
\* a - b on u16 when overflow checks are off
WrappingSub(a, b) == (a - b + U16) % U16
\* u16::saturating_add / saturating_sub
SaturatingAdd(a, b) == Min(a + b, U16 - 1)
SaturatingSub(a, b) == Max(a - b, 0)


(***************************************************************************)
(* Byte codec (controller.rs:41-47) and the stick decode of               *)
(* read_stick_data (controller.rs:167-170).  x & 0xFF is x % 256,         *)
(* (x & 0xF00) >> 8 is (x \div 256) % 16, and so on; an `|` of disjoint    *)
(* nibbles is a sum.                                                       *)
(***************************************************************************)
\* a codec that puts the low nibble of the second value in the low half of
\* the middle byte
EncodeNibblesSwapped(decoded) ==
    << decoded[1] % 256,
       ((decoded[1] \div 256) % 16) * 16 + (decoded[2] % 16),
       (decoded[2] \div 16) % 256 >>

encode_stick_params(decoded) ==
    << decoded[1] % 256,
       ((decoded[1] \div 256) % 16) + ((decoded[2] % 16) * 16),
       (decoded[2] \div 16) % 256 >>

\* bytes 6..11 of an input report, given as a sequence b[1..6]
DecodeStick(b) ==
    [ lx |-> ((b[2] % 16) * 256) + b[1],
      ly |-> (b[3] * 16) + (b[2] \div 16),
      rx |-> ((b[5] % 16) * 256) + b[4],
      ry |-> (b[6] * 16) + (b[5] \div 16) ]

(***************************************************************************)
(* Records.                                                                *)
(***************************************************************************)
\* controller.rs:17-25, #[derive(Default)]
StickCalibrationDefault ==
    [xmax |-> 0, ymax |-> 0, xcenter |-> 0, ycenter |-> 0, xmin |-> 0, ymin |-> 0]

\* controller.rs:69-78
StickDataDefault ==
    [lx |-> STICK_REST, ly |-> STICK_REST, rx |-> STICK_REST, ry |-> STICK_REST]

ControllerTypes == {"JoyConL", "JoyConR", "ProController"}

(***************************************************************************)
(* The commit payloads (controller.rs:231-298).                            *)
(***************************************************************************)
\* a left record laid out in the order of the right one
LeftCalDataRightOrder(cal) ==
    << cal.xcenter, cal.ycenter,
       (cal.xcenter - cal.xmin + U16) % U16, (cal.ycenter - cal.ymin + U16) % U16,
       (cal.xmax - cal.xcenter + U16) % U16, (cal.ymax - cal.ycenter + U16) % U16 >>

\* data[0..5] of write_left_stick_calibration, with wrapping subtraction
LeftCalData(cal) ==
    << WrappingSub(cal.xmax, cal.xcenter), WrappingSub(cal.ymax, cal.ycenter),
       cal.xcenter, cal.ycenter,
       WrappingSub(cal.xcenter, cal.xmin), WrappingSub(cal.ycenter, cal.ymin) >>

\* data[0..5] of write_right_stick_calibration
RightCalData(cal) ==
    << cal.xcenter, cal.ycenter,
       WrappingSub(cal.xcenter, cal.xmin), WrappingSub(cal.ycenter, cal.ymin),
       WrappingSub(cal.xmax, cal.xcenter), WrappingSub(cal.ymax, cal.ycenter) >>

\* stick_cal[0..9]: three encoded pairs
PackCal(data) ==
    encode_stick_params(<<data[1], data[2]>>)
      \o encode_stick_params(<<data[3], data[4]>>)
      \o encode_stick_params(<<data[5], data[6]>>)

LeftCalPayload(cal) == PackCal(LeftCalData(cal))
RightCalPayload(cal) == PackCal(RightCalData(cal))

\* one of the u16 subtractions of the two functions above goes below zero:
\* a panic when overflow checks are on, a wrapped value otherwise
CalUnderflows(cal) ==
    \/ cal.xmax < cal.xcenter
    \/ cal.ymax < cal.ycenter
    \/ cal.xcenter < cal.xmin
    \/ cal.ycenter < cal.ymin

\* controller.rs:243-244
LeftParams(left_deadzone) == encode_stick_params(<<left_deadzone, RANGE_RATIO>>)
RightParams(right_deadzone) == encode_stick_params(<<RANGE_RATIO, right_deadzone>>)

\* variants of the match at controller.rs:246-256 that do not mirror: every
\* identity keeps its own records and blocks; the records are mirrored but the
\* parameter blocks are not; every identity mirrors the left stick
FinalCalibrationOwn(ctype, left_cal, right_cal, left_deadzone, right_deadzone) ==
    [left_cal |-> left_cal, right_cal |-> right_cal,
     left_params |-> LeftParams(left_deadzone),
     right_params |-> RightParams(right_deadzone)]
FinalCalibrationOwnParams(ctype, left_cal, right_cal, left_deadzone, right_deadzone) ==
    [left_cal |-> IF ctype = "JoyConR" THEN right_cal ELSE left_cal,
     right_cal |-> IF ctype = "JoyConL" THEN left_cal ELSE right_cal,
     left_params |-> LeftParams(left_deadzone),
     right_params |-> RightParams(right_deadzone)]
FinalCalibrationAllLeft(ctype, left_cal, right_cal, left_deadzone, right_deadzone) ==
    [left_cal |-> left_cal, right_cal |-> left_cal,
     left_params |-> LeftParams(left_deadzone),
     right_params |-> LeftParams(left_deadzone)]

\* controller.rs:246-256: (final_left_cal, final_right_cal, left_params, right_params)
FinalCalibration(ctype, left_cal, right_cal, left_deadzone, right_deadzone) ==
    CASE ctype = "JoyConL" ->
           [left_cal |-> left_cal, right_cal |-> left_cal,
            left_params |-> LeftParams(left_deadzone),
            right_params |-> LeftParams(left_deadzone)]
      [] ctype = "JoyConR" ->
           [left_cal |-> right_cal, right_cal |-> right_cal,
            left_params |-> RightParams(right_deadzone),
            right_params |-> RightParams(right_deadzone)]
      [] OTHER ->
           [left_cal |-> left_cal, right_cal |-> right_cal,
            left_params |-> LeftParams(left_deadzone),
            right_params |-> RightParams(right_deadzone)]

\* a variant of the sequence below that writes the left slots first
CommitWritesLeftFirst(ctype, left_cal, right_cal, left_deadzone, right_deadzone) ==
    LET f == FinalCalibration(ctype, left_cal, right_cal, left_deadzone, right_deadzone)
    IN  << [addr |-> LEFT_STICK_CAL_ADDR, data |-> LeftCalPayload(f.left_cal)],
           [addr |-> LEFT_STICK_PARAMS_ADDR, data |-> f.left_params],
           [addr |-> RIGHT_STICK_CAL_ADDR, data |-> RightCalPayload(f.right_cal)],
           [addr |-> RIGHT_STICK_PARAMS_ADDR, data |-> f.right_params] >>

\* controller.rs:258-261: the four write_spi_data calls of a commit, in order
CommitWrites(ctype, left_cal, right_cal, left_deadzone, right_deadzone) ==
    LET f == FinalCalibration(ctype, left_cal, right_cal, left_deadzone, right_deadzone)
    IN  << [addr |-> RIGHT_STICK_CAL_ADDR, data |-> RightCalPayload(f.right_cal)],
           [addr |-> RIGHT_STICK_PARAMS_ADDR, data |-> f.right_params],
           [addr |-> LEFT_STICK_CAL_ADDR, data |-> LeftCalPayload(f.left_cal)],
           [addr |-> LEFT_STICK_PARAMS_ADDR, data |-> f.left_params] >>

\* the record whose differences the w-th write computes (writes 1 and 3)
CommitUnderflows(ctype, left_cal, right_cal, w) ==
    LET f == FinalCalibration(ctype, left_cal, right_cal, 0, 0)
    IN  \/ w = 1 /\ CalUnderflows(f.right_cal)
        \/ w = 3 /\ CalUnderflows(f.left_cal)

(***************************************************************************)
(* The device (environment).  An input report is known by its length, the  *)
(* bytes it carries at 0x0D and 0x0E, the identity of its bytes 0x0F-0x18  *)
(* and its stick bytes 6..11.  A read_timeout returns one of these,        *)
(* nothing (Ok(0), len = 0) or an error.                                   *)
(***************************************************************************)
\* the device packs its stick sample into bytes 6..11 with the nibble layout
StickBytes(s) ==
    encode_stick_params(<<s.lx, s.ly>>) \o encode_stick_params(<<s.rx, s.ry>>)

StickReport(s) ==
    [err |-> FALSE, len |-> REPORT_LEN, d |-> 0, e |-> 0, tail |-> "input",
     stick |-> StickBytes(s)]
\* reply to subcommand 0x11 (SPI write)
AckReport ==
    [err |-> FALSE, len |-> REPORT_LEN, d |-> SPI_ACK, e |-> SPI_SUB, tail |-> "ack",
     stick |-> StickBytes(StickDataDefault)]
\* reply to subcommand 0x02 (device info)
InfoReport ==
    [err |-> FALSE, len |-> REPORT_LEN, d |-> INFO_ACK, e |-> INFO_SUB, tail |-> "info",
     stick |-> StickBytes(StickDataDefault)]
\* a 12-byte simple HID report
ShortReport ==
    [err |-> FALSE, len |-> 12, d |-> 0, e |-> 0, tail |-> "none",
     stick |-> StickBytes(StickDataDefault)]
\* Ok(0): nothing arrived within the timeout
NoData ==
    [err |-> FALSE, len |-> 0, d |-> 0, e |-> 0, tail |-> "none",
     stick |-> StickBytes(StickDataDefault)]
\* Err(_)
ReadErr ==
    [err |-> TRUE, len |-> 0, d |-> 0, e |-> 0, tail |-> "none",
     stick |-> StickBytes(StickDataDefault)]

\* reports shorter than the offsets a polling loop inspects: 15 bytes that end
\* with the device-info reply's 0x82 0x02, 14 bytes that end with its 0x82
ShortInfoReport ==
    [err |-> FALSE, len |-> OFF_SUB + 1, d |-> INFO_ACK, e |-> INFO_SUB, tail |-> "none",
     stick |-> StickBytes(StickDataDefault)]
HeadInfoReport ==
    [err |-> FALSE, len |-> OFF_ACK + 1, d |-> INFO_ACK, e |-> 0, tail |-> "none",
     stick |-> StickBytes(StickDataDefault)]
\* a full report whose byte 0x0E is 0x02 but which is no device-info reply
StrayReport ==
    [err |-> FALSE, len |-> REPORT_LEN, d |-> 0, e |-> INFO_SUB, tail |-> "stray",
     stick |-> StickBytes(StickDataDefault)]

\* samples of a stick that is never touched, and of sticks that are moved
SamplesRest == {StickDataDefault}
SampleHigh == [lx |-> 3840, ly |-> 3584, rx |-> 3900, ry |-> 4000]
SamplesMoved == {StickDataDefault, SampleHigh}

\* samples of a sweep: two around the rest position, 0x100 apart in x and 0xC0
\* in y on the left stick, one near the low end and two near the high end of
\* every axis
SampleLow == [lx |-> 256, ly |-> 288, rx |-> 320, ry |-> 352]
SampleCenterLo == [lx |-> 1920, ly |-> 1952, rx |-> 1984, ry |-> 2016]
SampleCenterHi == [lx |-> 2176, ly |-> 2144, rx |-> 2112, ry |-> 2080]
SampleWide == [lx |-> 3584, ly |-> 3328, rx |-> 3648, ry |-> 3392]
SampleFull == [lx |-> 3840, ly |-> 3872, rx |-> 3904, ry |-> 3936]
SamplesSweep == {SampleLow, SampleCenterLo, SampleCenterHi, SampleWide, SampleFull}

VARIABLES
    \* CalibrationApp (main.rs:12-27)
    controller, device_info, controller_type, has_left, has_right, stick_data,
    calibration_step, calibration_data, left_result, right_result,
    left_deadzone, right_deadzone, outer_deadzone, error_message,
    \* Controller.timing_byte (controller.rs:37)
    timing_byte,
    \* holder of the parking_lot Mutex around the Controller (main.rs:13)
    lock,
    \* the click handler in progress: write_calibration, the write it is at, and
    \* whether a frame's poll has read from the device since it began
    ui,
    \* the process has panicked on an arithmetic overflow
    panicked,
    \* the environment: the build profile and what the device does
    env,
    \* the last output report sent and byte1 of the one before it
    last_cmd, prev_byte1,
    \* the write_spi_data calls of the current commit, and what they returned
    spi_log,
    \* device flash as acknowledged: address -> payload
    flash,
    \* how the commits that failed so far looked to the caller
    first_failure, last_failure,
    \* presses of the start and write buttons so far
    starts, commits,
    \* a write_spi_data call followed attempt by attempt
    call,
    \* two commits' inputs and the payloads computed from them
    probe

vars ==
    << controller, device_info, controller_type, has_left, has_right, stick_data,
       calibration_step, calibration_data, left_result, right_result,
       left_deadzone, right_deadzone, outer_deadzone, error_message,
       timing_byte, lock, ui, panicked, env, last_cmd, prev_byte1, spi_log,
       flash, first_failure, last_failure, starts, commits, call, probe >>

appData ==
    << stick_data, calibration_data, left_result, right_result,
       left_deadzone, right_deadzone, outer_deadzone >>
appConn == << controller, device_info, controller_type, has_left, has_right >>
ghosts == << spi_log, flash, first_failure, last_failure >>
presses == << starts, commits, probe >>

\* reports the device streams, and what a read may return
Reports == {StickReport(s) : s \in env.samples} \cup {ShortReport}
ReadOutcomes == Reports \cup {NoData} \cup (IF env.faulty THEN {ReadErr} ELSE {})
\* what a read can return while an SPI write is outstanding
SpiOutcomes ==
    {StickReport(StickDataDefault), AckReport, InfoReport}
      \cup (IF env.faulty THEN {ReadErr} ELSE {})
\* device.write(&cmd): Ok or Err
WriteOutcomes == IF env.faulty THEN {TRUE, FALSE} ELSE {TRUE}

\* what up to MaxBurst consecutive reads return; later reads return nothing
BurstsOf(S) == UNION { [1..n -> S] : n \in 0..MaxBurst }
ReadAt(window, i) == IF i <= Len(window) THEN window[i] ELSE NoData

\* A device as a whole call sees it: the attempt whose polling window holds
\* the reply (0: none), the attempt whose device.write fails (0: none), and
\* what the polling windows of the other attempts hold.
Oracles ==
    IF env.faulty
    THEN { [ack_at |-> a, fail_at |-> f, noise |-> n] :
             a \in 0..MaxAnswer, f \in 0..MaxAnswer, n \in {<<>>, <<ReadErr>>} }
    ELSE { [ack_at |-> 1, fail_at |-> 0, noise |-> <<>>] }
OracleWok(o, i) == i # o.fail_at
OracleWindow(o, i, reply) == IF i = o.ack_at THEN <<reply>> ELSE o.noise

(***************************************************************************)
(* CalibrationData (main.rs:40-114).                                       *)
(***************************************************************************)
\* main.rs:65-82
CalibrationDataNew ==
    [min_lx |-> SEED_MIN, max_lx |-> 0, min_ly |-> SEED_MIN, max_ly |-> 0,
     min_rx |-> SEED_MIN, max_rx |-> 0, min_ry |-> SEED_MIN, max_ry |-> 0,
     center_lx |-> 0, center_ly |-> 0, center_rx |-> 0, center_ry |-> 0,
     deadzone_l |-> 0, deadzone_r |-> 0]

RECURSIVE SqrtSearch(_, _, _)
\* the largest k in lo..hi with k*k <= n
SqrtSearch(n, lo, hi) ==
    IF lo >= hi THEN lo
    ELSE LET mid == (lo + hi + 1) \div 2
         IN  IF mid * mid <= n THEN SqrtSearch(n, mid, hi)
             ELSE SqrtSearch(n, lo, mid - 1)

\* main.rs:58-62 and the `/ 2.0) as u16` of main.rs:97-112
HalfDistance(x1, y1, x2, y2) ==
    LET dx == x2 - x1
        dy == y2 - y1
    IN  SqrtSearch(dx * dx + dy * dy, 0, 2 * SEED_MIN) \div 2

\* an accumulator that keeps the latest sample only
UpdateLatest(cd, data) ==
    [min_lx |-> data.lx, max_lx |-> data.lx, min_ly |-> data.ly, max_ly |-> data.ly,
     min_rx |-> data.rx, max_rx |-> data.rx, min_ry |-> data.ry, max_ry |-> data.ry,
     center_lx |-> data.lx, center_ly |-> data.ly,
     center_rx |-> data.rx, center_ry |-> data.ry,
     deadzone_l |-> 0, deadzone_r |-> 0]

\* main.rs:84-113
Update(cd, data) ==
    LET min_lx == Min(cd.min_lx, data.lx)
        max_lx == Max(cd.max_lx, data.lx)
        min_ly == Min(cd.min_ly, data.ly)
        max_ly == Max(cd.max_ly, data.ly)
        min_rx == Min(cd.min_rx, data.rx)
        max_rx == Max(cd.max_rx, data.rx)
        min_ry == Min(cd.min_ry, data.ry)
        max_ry == Max(cd.max_ry, data.ry)
    IN  [min_lx |-> min_lx, max_lx |-> max_lx, min_ly |-> min_ly, max_ly |-> max_ly,
         min_rx |-> min_rx, max_rx |-> max_rx, min_ry |-> min_ry, max_ry |-> max_ry,
         center_lx |-> (max_lx + min_lx) \div 2,
         center_ly |-> (max_ly + min_ly) \div 2,
         center_rx |-> (max_rx + min_rx) \div 2,
         center_ry |-> (max_ry + min_ry) \div 2,
         deadzone_l |-> HalfDistance(min_lx, min_ly, max_lx, max_ly),
         deadzone_r |-> HalfDistance(min_rx, min_ry, max_rx, max_ry)]

(***************************************************************************)
(* The loops of the Controller.                                            *)
(***************************************************************************)
\* a read of n bytes overwrites the first n bytes of the buffer only
Overlay(buf, r) ==
    [d |-> IF r.len > OFF_ACK THEN r.d ELSE buf.d,
     e |-> IF r.len > OFF_SUB THEN r.e ELSE buf.e,
     tail |-> IF r.len > OFF_INFO_END THEN r.tail ELSE buf.tail]
\* [0u8; 49]
ZeroBuf == [d |-> 0, e |-> 0, tail |-> "zero"]

RECURSIVE SpiPoll(_, _)
\* controller.rs:214-225: `for _ in 0..MAX_RETRIES`, n polls done so far
SpiPoll(window, n) ==
    IF n >= MAX_RETRIES THEN [acked |-> FALSE, polls |-> n]
    ELSE LET r == ReadAt(window, n + 1)
             resp == Overlay(ZeroBuf, r)
         IN  IF r.err THEN [acked |-> FALSE, polls |-> n + 1]
             ELSE IF resp.d = SPI_ACK /\ resp.e = SPI_SUB
                  THEN [acked |-> TRUE, polls |-> n + 1]
                  ELSE SpiPoll(window, n + 1)

\* entry of write_spi_data (controller.rs:198-201) with self.timing_byte = tb;
\* cmds are the byte1 of the commands sent, delivered tells whether one of the
\* reads made so far returned the acknowledgement
SpiCallStart(tb) ==
    [res |-> "running", attempt |-> 0, timing_byte |-> tb, sends |-> 0,
     polls |-> 0, delivered |-> FALSE, cmds |-> <<>>]
NoCall == [SpiCallStart(0) EXCEPT !.res = "none"]

\* one of the first n reads of the window returned the SPI acknowledgement
AckDelivered(window, n) == \E i \in 1..n : ReadAt(window, i) = AckReport

\* a variant of the loop below that gives up after MAX_RETRIES attempts
SpiAttemptShortBudget(c, wok, window) ==
    LET byte1 == c.timing_byte % 16
        tb == (c.timing_byte + 1) % 256
        r == SpiPoll(window, 0)
        c1 == [c EXCEPT !.timing_byte = tb, !.attempt = @ + 1, !.sends = @ + 1,
                        !.polls = r.polls, !.cmds = Append(@, byte1),
                        !.delivered = @ \/ AckDelivered(window, r.polls)]
    IN  IF ~wok THEN [c EXCEPT !.timing_byte = tb, !.polls = 0, !.res = "HidError"]
        ELSE IF r.acked THEN [c1 EXCEPT !.res = "Ok"]
        ELSE IF c1.attempt >= MAX_RETRIES THEN [c1 EXCEPT !.res = "SpiWriteFailed"]
        ELSE c1

\* controller.rs:203-228: one iteration of `for _ in 0..MAX_ATTEMPTS`, where
\* device.write returns wok and the reads return window
SpiAttempt(c, wok, window) ==
    LET byte1 == c.timing_byte % 16
        tb == (c.timing_byte + 1) % 256
        r == SpiPoll(window, 0)
        c1 == [c EXCEPT !.timing_byte = tb, !.attempt = @ + 1, !.sends = @ + 1,
                        !.polls = r.polls, !.cmds = Append(@, byte1),
                        !.delivered = @ \/ AckDelivered(window, r.polls)]
    IN  IF ~wok THEN [c EXCEPT !.timing_byte = tb, !.polls = 0, !.res = "HidError"]
        ELSE IF r.acked THEN [c1 EXCEPT !.res = "Ok"]
        ELSE IF c1.attempt >= MAX_ATTEMPTS THEN [c1 EXCEPT !.res = "SpiWriteFailed"]
        ELSE c1

RECURSIVE SpiRun(_, _)
SpiRun(c, o) ==
    IF c.res # "running" THEN c
    ELSE SpiRun(SpiAttempt(c, OracleWok(o, c.attempt + 1),
                           OracleWindow(o, c.attempt + 1, AckReport)), o)

\* controller.rs:198-229 against the device o
write_spi_data(tb, o) == SpiRun(SpiCallStart(tb), o)

RECURSIVE InfoPoll(_, _, _)
\* controller.rs:122-138: `while retries < 8`, buf kept between the reads
InfoPoll(window, n, buf) ==
    IF n >= INFO_RETRIES THEN [matched |-> FALSE, polls |-> n, buf |-> buf]
    ELSE LET r == ReadAt(window, n + 1)
             b == Overlay(buf, r)
         IN  IF r.err THEN [matched |-> FALSE, polls |-> n + 1, buf |-> buf]
             ELSE IF b.d = INFO_ACK /\ b.e = INFO_SUB
                  THEN [matched |-> TRUE, polls |-> n + 1, buf |-> b]
                  ELSE InfoPoll(window, n + 1, b)

\* byte1 of the device-info command: cmd[1] is never written (controller.rs:113-118)
InfoByte1 == 0

\* entry of get_device_info (controller.rs:112-114)
InfoCallStart ==
    [res |-> "running", attempt |-> 0, buf |-> ZeroBuf, sends |-> 0, polls |-> 0,
     info |-> "None", cmds |-> <<>>]

\* controller.rs:116-142: one iteration of `while error_reading < 20`
InfoAttempt(c, wok, window) ==
    LET r == InfoPoll(window, 0, c.buf)
        c1 == [c EXCEPT !.attempt = @ + 1, !.sends = @ + 1, !.polls = r.polls,
                        !.buf = r.buf, !.cmds = Append(@, InfoByte1)]
    IN  IF ~wok THEN [c EXCEPT !.res = "HidError"]
        ELSE IF r.matched THEN [c1 EXCEPT !.res = "Ok", !.info = r.buf.tail]
        ELSE IF c1.attempt >= INFO_ATTEMPTS THEN [c1 EXCEPT !.res = "DeviceInfoUnavailable"]
        ELSE c1

RECURSIVE InfoRun(_, _)
InfoRun(c, o) ==
    IF c.res # "running" THEN c
    ELSE InfoRun(InfoAttempt(c, OracleWok(o, c.attempt + 1),
                             OracleWindow(o, c.attempt + 1, InfoReport)), o)

\* controller.rs:111-143 against the device o
get_device_info(o) == InfoRun(InfoCallStart, o)

RECURSIVE DrainKeepsFirst(_, _, _)
\* a drain that keeps the first valid report instead of the last
DrainKeepsFirst(burst, n, last_valid_data) ==
    LET r == ReadAt(burst, n + 1)
    IN  IF ~r.err /\ r.len > 0
        THEN DrainKeepsFirst(burst, n + 1,
                   IF r.len > 12 /\ ~last_valid_data.some
                   THEN [some |-> TRUE, data |-> DecodeStick(r.stick)]
                   ELSE last_valid_data)
        ELSE [last |-> last_valid_data, reads |-> n + 1]

RECURSIVE Drain(_, _, _)
\* controller.rs:162-176: zero-timeout reads until one returns nothing
Drain(burst, n, last_valid_data) ==
    LET r == ReadAt(burst, n + 1)
    IN  IF ~r.err /\ r.len > 0
        THEN Drain(burst, n + 1,
                   IF r.len > 12
                   THEN [some |-> TRUE, data |-> DecodeStick(r.stick)]
                   ELSE last_valid_data)
        ELSE [last |-> last_valid_data, reads |-> n + 1]

NoStickData == [some |-> FALSE, data |-> StickDataDefault]

\* controller.rs:157-196: Ok(data) as [some |-> TRUE, ...], Err as NoStickData
read_stick_data(burst, blocking) ==
    LET drained == Drain(burst, 0, NoStickData)
    IN  IF drained.last.some THEN drained.last
        ELSE IF ~blocking.err /\ blocking.len > 12
             THEN [some |-> TRUE, data |-> DecodeStick(blocking.stick)]
             ELSE NoStickData

\* controller.rs:178-184: the 20 ms read is made when the drain kept nothing
BlockingReads(burst) == IF Drain(burst, 0, NoStickData).last.some THEN 0 ELSE 1

(***************************************************************************)
(* The handlers' computations (main.rs:173-215).                           *)
(***************************************************************************)
\* main.rs:184-185 subtracts below zero
CenterUnderflows(cd) == cd.max_lx < cd.min_lx \/ cd.max_rx < cd.min_rx

\* a next_step that takes the deadzones from the diagonal of the extent, as
\* update does for its provisional ones
CenterResultsDiagonal(cd, left, right) ==
    [left_result |-> [left EXCEPT !.xcenter = (cd.min_lx + cd.max_lx) \div 2,
                                  !.ycenter = (cd.min_ly + cd.max_ly) \div 2],
     right_result |-> [right EXCEPT !.xcenter = (cd.min_rx + cd.max_rx) \div 2,
                                    !.ycenter = (cd.min_ry + cd.max_ry) \div 2],
     left_deadzone |-> HalfDistance(cd.min_lx, cd.min_ly, cd.max_lx, cd.max_ly),
     right_deadzone |-> HalfDistance(cd.min_rx, cd.min_ry, cd.max_rx, cd.max_ry)]

\* main.rs:179-185: the fields next_step assigns in CalibrateCenter
CenterResults(cd, left, right) ==
    [left_result |-> [left EXCEPT !.xcenter = (cd.min_lx + cd.max_lx) \div 2,
                                  !.ycenter = (cd.min_ly + cd.max_ly) \div 2],
     right_result |-> [right EXCEPT !.xcenter = (cd.min_rx + cd.max_rx) \div 2,
                                    !.ycenter = (cd.min_ry + cd.max_ry) \div 2],
     left_deadzone |-> WrappingSub(cd.max_lx, cd.min_lx) \div 2,
     right_deadzone |-> WrappingSub(cd.max_rx, cd.min_rx) \div 2]

\* a padding that ignores the user's choice
PaddingAlways(enable) == OUTER_PADDING

\* main.rs:201
Padding(enable) == IF enable THEN OUTER_PADDING ELSE 0

\* main.rs:204-212: the fields set_outer_deadzone assigns
RangeResults(cd, left, right, enable) ==
    LET padding == Padding(enable)
    IN  [left_result |->
             [left EXCEPT !.xmin = Min(SaturatingAdd(cd.min_lx, padding), AXIS_MAX),
                          !.ymin = Min(SaturatingAdd(cd.min_ly, padding), AXIS_MAX),
                          !.xmax = Max(SaturatingSub(cd.max_lx, padding), 0),
                          !.ymax = Max(SaturatingSub(cd.max_ly, padding), 0)],
         right_result |->
             [right EXCEPT !.xmin = Min(SaturatingAdd(cd.min_rx, padding), AXIS_MAX),
                           !.ymin = Min(SaturatingAdd(cd.min_ry, padding), AXIS_MAX),
                           !.xmax = Max(SaturatingSub(cd.max_rx, padding), 0),
                           !.ymax = Max(SaturatingSub(cd.max_ry, padding), 0)]]

\* main.rs:145-152
HasLeft(ctype) == ctype \in {"JoyConL", "ProController"}
HasRight(ctype) == ctype \in {"JoyConR", "ProController"}

(***************************************************************************)
(* Initial states.                                                         *)
(***************************************************************************)
UiIdle == [pc |-> "idle", w |-> 0, intruded |-> FALSE]
NoCmd == [byte1 |-> -1, sub |-> 0, addr |-> 0, len |-> 0]
NoFailure == [some |-> FALSE, msg |-> "None", step |-> "None", partial |-> FALSE]
FlashAddrs ==
    {LEFT_STICK_CAL_ADDR, RIGHT_STICK_CAL_ADDR,
     LEFT_STICK_PARAMS_ADDR, RIGHT_STICK_PARAMS_ADDR}

\* CalibrationApp::new (main.rs:117-134); no Controller exists yet
InitApp ==
    /\ controller = "None"
    /\ device_info = "None"
    /\ controller_type = "None"
    /\ has_left = FALSE
    /\ has_right = FALSE
    /\ stick_data = StickDataDefault
    /\ calibration_step = "Connect"
    /\ calibration_data = CalibrationDataNew
    /\ left_result = StickCalibrationDefault
    /\ right_result = StickCalibrationDefault
    /\ left_deadzone = 0
    /\ right_deadzone = 0
    /\ outer_deadzone = FALSE
    /\ error_message = "None"
    /\ timing_byte = 0
    /\ starts = 0

\* records and deadzones the wizard can hand to a commit: two swept sticks and
\* a stick that was never moved, padded
RecordSwept ==
    [xmax |-> 3840, ymax |-> 3584, xcenter |-> 2048, ycenter |-> 2047,
     xmin |-> 256, ymin |-> 300]
RecordOther ==
    [xmax |-> 3900, ymax |-> 4000, xcenter |-> 2100, ycenter |-> 2000,
     xmin |-> 200, ymin |-> 100]
RecordUnmoved ==
    [xmax |-> 1968, ymax |-> 1968, xcenter |-> 2048, ycenter |-> 2048,
     xmin |-> 2128, ymin |-> 2128]
Records == {RecordSwept, RecordOther, RecordUnmoved}
Deadzones == {0, 64}
CommitInputs ==
    [left_cal : Records, right_cal : Records,
     left_deadzone : Deadzones, right_deadzone : Deadzones]
NoProbe == [ctype |-> "None", a |-> "None", b |-> "None", out_a |-> <<>>, out_b |-> <<>>]

InitIdle ==
    /\ lock = "free"
    /\ ui = UiIdle
    /\ panicked = FALSE
    /\ spi_log = <<>>
    /\ flash = [a \in FlashAddrs |-> <<>>]
    /\ first_failure = NoFailure
    /\ last_failure = NoFailure
    /\ commits = 0
    /\ call = NoCall

InitRest == InitIdle /\ probe = NoProbe

\* the wizard from its start, against a device that may fail
Init ==
    /\ InitApp
    /\ InitRest
    /\ env \in { [faulty |-> TRUE, samples |-> SamplesMoved, overflow_checks |-> b] :
                   b \in BOOLEAN }
    /\ last_cmd = NoCmd
    /\ prev_byte1 = -1

\* what the sticks were when the centre was taken and when the range was swept
CenterSweep == Update(CalibrationDataNew, StickDataDefault)
RangeSweep == Update(Update(CalibrationDataNew, StickDataDefault), SampleHigh)

\* the wizard in Review: connected, input enabled, centre taken at rest, the
\* range swept from rest to SampleHigh, no outer deadzone
InitReview ==
    /\ InitRest
    /\ \E ctype \in ControllerTypes, enable \in {FALSE} :
         LET cr == CenterResults(CenterSweep, StickCalibrationDefault,
                                 StickCalibrationDefault)
             rr == RangeResults(RangeSweep, cr.left_result, cr.right_result, enable)
         IN  /\ controller = "Some"
             /\ device_info = "info"
             /\ controller_type = ctype
             /\ has_left = HasLeft(ctype)
             /\ has_right = HasRight(ctype)
             /\ left_result = rr.left_result
             /\ right_result = rr.right_result
             /\ left_deadzone = cr.left_deadzone
             /\ right_deadzone = cr.right_deadzone
             /\ outer_deadzone = enable
    /\ stick_data = StickDataDefault
    /\ calibration_step = "Review"
    /\ calibration_data = RangeSweep
    /\ error_message = "None"
    /\ timing_byte = 1
    /\ starts = 1
    /\ env = [faulty |-> TRUE, samples |-> SamplesRest, overflow_checks |-> FALSE]
    /\ last_cmd = [byte1 |-> 0, sub |-> 3, addr |-> 0, len |-> 0]
    /\ prev_byte1 = InfoByte1

(***************************************************************************)
(* Helpers of the actions.                                                 *)
(***************************************************************************)
\* a poll that does not wait for the Mutex
NoLock == TRUE
\* c.lock() can be taken (main.rs:164, 219, 239)
LockFree == lock = "free"
Running == ~panicked /\ ui.pc = "idle"

\* the output reports a call has sent, as the last one and byte1 of the one before
SentLast(cmds, sub, addr, len) ==
    IF cmds = <<>> THEN last_cmd
    ELSE [byte1 |-> cmds[Len(cmds)], sub |-> sub, addr |-> addr, len |-> len]
SentPrev(cmds) ==
    IF cmds = <<>> THEN prev_byte1
    ELSE IF Len(cmds) = 1 THEN last_cmd.byte1
    ELSE cmds[Len(cmds) - 1]

(***************************************************************************)
(* connect (main.rs:136-160, controller.rs:81-143).                        *)
(***************************************************************************)
\* Controller::connect found nothing (main.rs:156-158)
ConnectFails ==
    /\ error_message' = "Failed to connect: No supported controller found."
    /\ UNCHANGED << appConn, appData, calibration_step, timing_byte, lock, ui,
                    panicked, env, last_cmd, prev_byte1, ghosts,
                    presses, call >>

\* main.rs:138-155 with the device ctype opened and the device-info call r
ConnectOk(ctype, r) ==
    /\ controller' = "Some"
    /\ timing_byte' = 0
    /\ device_info' = IF r.res = "Ok" THEN r.info ELSE "None"
    /\ controller_type' = ctype
    /\ calibration_step' = "Connected"
    /\ has_left' = (has_left \/ HasLeft(ctype))
    /\ has_right' = (has_right \/ HasRight(ctype))
    /\ error_message' = "None"
    /\ last_cmd' = SentLast(r.cmds, INFO_SUB, 0, 0)
    /\ prev_byte1' = SentPrev(r.cmds)
    /\ UNCHANGED << appData, lock, ui, panicked, env, ghosts, presses, call >>

Connect ==
    /\ Running
    /\ calibration_step = "Connect"
    /\ \/ env.faulty /\ ConnectFails
       \/ \E ctype \in ControllerTypes, r \in { get_device_info(o) : o \in Oracles } :
            ConnectOk(ctype, r)

(***************************************************************************)
(* start_calibration (main.rs:162-171, controller.rs:145-155).             *)
(***************************************************************************)
StartCalibration ==
    /\ Running
    /\ calibration_step = "Connected"
    /\ LockFree
    /\ starts < MaxStarts
    /\ starts' = starts + 1
    /\ timing_byte' = (timing_byte + 1) % 256
    /\ \E wok \in WriteOutcomes :
         IF wok
         THEN /\ last_cmd' = [byte1 |-> timing_byte % 16, sub |-> 3, addr |-> 0, len |-> 0]
              /\ prev_byte1' = last_cmd.byte1
              /\ calibration_step' = "CalibrateCenter"
              /\ calibration_data' = CalibrationDataNew
              /\ UNCHANGED error_message
         ELSE /\ error_message' = "Failed to enable input: hid error"
              /\ UNCHANGED << last_cmd, prev_byte1, calibration_step, calibration_data >>
    /\ UNCHANGED << appConn, stick_data, left_result, right_result, left_deadzone,
                    right_deadzone, outer_deadzone, lock, ui, panicked, env, ghosts,
                    commits, call, probe >>

(***************************************************************************)
(* next_step (main.rs:173-195).                                            *)
(***************************************************************************)
\* a variant of next_step that leaves the centre phase for the deadzone choice
NextStepSkips ==
    /\ Running
    /\ calibration_step \in {"CalibrateCenter", "CalibrateRange"}
    /\ calibration_step' = "OuterDeadzoneChoice"
    /\ UNCHANGED << appConn, appData, error_message, timing_byte, lock, ui, panicked,
                    env, last_cmd, prev_byte1, ghosts, presses, call >>

\* a variant of next_step that carries the centre phase's extent into the
\* range phase
NextStepKeepsExtent ==
    /\ Running
    /\ \/ /\ calibration_step = "CalibrateCenter"
          /\ LET r == CenterResults(calibration_data, left_result, right_result)
             IN  /\ left_result' = r.left_result
                 /\ right_result' = r.right_result
                 /\ IF env.overflow_checks /\ CenterUnderflows(calibration_data)
                    THEN /\ panicked' = TRUE
                         /\ UNCHANGED << left_deadzone, right_deadzone,
                                         calibration_step, calibration_data >>
                    ELSE /\ left_deadzone' = r.left_deadzone
                         /\ right_deadzone' = r.right_deadzone
                         /\ calibration_step' = "CalibrateRange"
                         /\ UNCHANGED << calibration_data, panicked >>
       \/ /\ calibration_step = "CalibrateRange"
          /\ calibration_step' = "OuterDeadzoneChoice"
          /\ UNCHANGED << left_result, right_result, left_deadzone, right_deadzone,
                          calibration_data, panicked >>
    /\ UNCHANGED << appConn, stick_data, outer_deadzone, error_message, timing_byte,
                    lock, ui, env, last_cmd, prev_byte1, ghosts,
                    presses, call >>

\* a variant of next_step that resets the extent when it leaves the range
\* phase too
NextStepResetsRange ==
    /\ Running
    /\ \/ /\ calibration_step = "CalibrateCenter"
          /\ LET r == CenterResults(calibration_data, left_result, right_result)
             IN  /\ left_result' = r.left_result
                 /\ right_result' = r.right_result
                 /\ IF env.overflow_checks /\ CenterUnderflows(calibration_data)
                    THEN /\ panicked' = TRUE
                         /\ UNCHANGED << left_deadzone, right_deadzone,
                                         calibration_step, calibration_data >>
                    ELSE /\ left_deadzone' = r.left_deadzone
                         /\ right_deadzone' = r.right_deadzone
                         /\ calibration_step' = "CalibrateRange"
                         /\ calibration_data' = CalibrationDataNew
                         /\ UNCHANGED panicked
       \/ /\ calibration_step = "CalibrateRange"
          /\ calibration_step' = "OuterDeadzoneChoice"
          /\ calibration_data' = CalibrationDataNew
          /\ UNCHANGED << left_result, right_result, left_deadzone, right_deadzone,
                          panicked >>
    /\ UNCHANGED << appConn, stick_data, outer_deadzone, error_message, timing_byte,
                    lock, ui, env, last_cmd, prev_byte1, ghosts,
                    presses, call >>

NextStep ==
    /\ Running
    /\ \/ /\ calibration_step = "CalibrateCenter"
          /\ LET r == CenterResults(calibration_data, left_result, right_result)
             IN  /\ left_result' = r.left_result
                 /\ right_result' = r.right_result
                 /\ IF env.overflow_checks /\ CenterUnderflows(calibration_data)
                    THEN /\ panicked' = TRUE
                         /\ UNCHANGED << left_deadzone, right_deadzone,
                                         calibration_step, calibration_data >>
                    ELSE /\ left_deadzone' = r.left_deadzone
                         /\ right_deadzone' = r.right_deadzone
                         /\ calibration_step' = "CalibrateRange"
                         /\ calibration_data' = CalibrationDataNew
                         /\ UNCHANGED panicked
       \/ /\ calibration_step = "CalibrateRange"
          /\ calibration_step' = "OuterDeadzoneChoice"
          /\ UNCHANGED << left_result, right_result, left_deadzone, right_deadzone,
                          calibration_data, panicked >>
    /\ UNCHANGED << appConn, stick_data, outer_deadzone, error_message, timing_byte,
                    lock, ui, env, last_cmd, prev_byte1, ghosts,
                    presses, call >>

(***************************************************************************)
(* set_outer_deadzone (main.rs:197-215).                                   *)
(***************************************************************************)
SetOuterDeadzone ==
    /\ Running
    /\ calibration_step = "OuterDeadzoneChoice"
    /\ \E enable \in BOOLEAN :
         LET r == RangeResults(calibration_data, left_result, right_result, enable)
         IN  /\ outer_deadzone' = enable
             /\ left_result' = r.left_result
             /\ right_result' = r.right_result
    /\ calibration_step' = "Review"
    /\ UNCHANGED << appConn, stick_data, calibration_data, left_deadzone,
                    right_deadzone, error_message, timing_byte, lock, ui, panicked,
                    env, last_cmd, prev_byte1, ghosts, presses, call >>

(***************************************************************************)
(* write_calibration (main.rs:217-231, controller.rs:231-298).  The Mutex  *)
(* is taken at main.rs:219 and held until the handler returns.             *)
(***************************************************************************)
WriteCalibration ==
    /\ Running
    /\ calibration_step = "Review"
    /\ LockFree
    /\ commits < MaxCommits
    /\ commits' = commits + 1
    /\ lock' = "ui"
    /\ ui' = [pc |-> "commit", w |-> 1, intruded |-> FALSE]
    /\ spi_log' = <<>>
    /\ UNCHANGED << appConn, appData, calibration_step, error_message, timing_byte,
                    panicked, env, last_cmd, prev_byte1, flash,
                    first_failure, last_failure, starts, call, probe >>

\* the write the commit is at
CurrentWrite ==
    CommitWrites(controller_type, left_result, right_result,
                 left_deadzone, right_deadzone)[ui.w]

\* controller.rs:268-273 / 285-290 subtract below zero with overflow checks on
CommitPanics ==
    /\ env.overflow_checks
    /\ CommitUnderflows(controller_type, left_result, right_result, ui.w)

\* the handler never returns: the process ends with the panic
CommitPanic ==
    /\ panicked' = TRUE
    /\ UNCHANGED << lock, appConn, appData, calibration_step, error_message, timing_byte, ui,
                    env, last_cmd, prev_byte1, ghosts, presses, call >>

\* "Failed to write: {e}" (main.rs:228) for the error e of write_spi_data
WriteError(res) ==
    IF res = "SpiWriteFailed" THEN "Failed to write: Failed to write SPI data"
    ELSE "Failed to write: hid error"

\* what the caller of a failed commit can observe, and whether the device
\* had taken some of its writes
Failure(msg, log) ==
    [some |-> TRUE, msg |-> msg, step |-> calibration_step,
     partial |-> \E i \in 1..Len(log) : log[i].res = "Ok"]

\* a commit that ignores the result of write_spi_data
CarriesOn(c) == TRUE
\* `?` at controller.rs:258-261: the commit goes on after an Ok only
Succeeded(c) == c.res = "Ok"

\* write_spi_data returned c, having sent cmds since the last step: `?` at
\* controller.rs:258-261 and the match of main.rs:226-229
SpiReturned(c, cmds) ==
    LET wr == CurrentWrite
        log == Append(spi_log, [addr |-> wr.addr, len |-> Len(wr.data), res |-> c.res])
    IN  /\ timing_byte' = c.timing_byte
        /\ last_cmd' = SentLast(cmds, SPI_SUB, wr.addr, Len(wr.data))
        /\ prev_byte1' = SentPrev(cmds)
        /\ spi_log' = log
        /\ flash' = IF c.res = "Ok" THEN [flash EXCEPT ![wr.addr] = wr.data] ELSE flash
        /\ IF Succeeded(c)
           THEN /\ IF ui.w = 4
                   THEN /\ calibration_step' = "Done"
                        /\ lock' = "free"
                        /\ ui' = UiIdle
                   ELSE /\ ui' = [ui EXCEPT !.w = @ + 1]
                        /\ UNCHANGED << calibration_step, lock >>
                /\ UNCHANGED << error_message, first_failure, last_failure >>
           ELSE /\ error_message' = WriteError(c.res)
                /\ first_failure' = IF first_failure.some THEN first_failure
                                    ELSE Failure(WriteError(c.res), log)
                /\ last_failure' = Failure(WriteError(c.res), log)
                /\ lock' = "free"
                /\ ui' = UiIdle
                /\ UNCHANGED calibration_step
        /\ UNCHANGED << appConn, appData, panicked, env, presses >>

\* one write_spi_data call of the commit, against the device o
WriteSpiData ==
    /\ ~panicked
    /\ ui.pc = "commit"
    /\ IF CommitPanics THEN CommitPanic
       ELSE \E c \in { write_spi_data(timing_byte, o) : o \in Oracles } :
              SpiReturned(c, c.cmds) /\ UNCHANGED call

\* the window holds no acknowledgement
Silent(window) == \A i \in 1..Len(window) : window[i] # AckReport

\* the call in progress, or the one the commit enters now
CallEntered == IF call.res = "running" THEN call ELSE SpiCallStart(timing_byte)

\* where an attempt of the call c0 can leave it.  The device answers or fails
\* within the first MaxLate attempts of a call, or stays silent for the rest.
AttemptResults(c0) ==
    { SpiAttempt(c0, x[1], x[2]) :
        x \in { y \in WriteOutcomes \X BurstsOf(SpiOutcomes) :
                  c0.attempt >= MaxLate => y[1] /\ Silent(y[2]) } }

\* one attempt of the write_spi_data call of the commit: what the call does
\* between two sends
WriteSpiAttempt ==
    /\ ~panicked
    /\ ui.pc = "commit"
    /\ IF call.res # "running" /\ CommitPanics THEN CommitPanic
       ELSE \E c \in AttemptResults(CallEntered) :
              LET wr == CurrentWrite
                  cmds == IF Len(c.cmds) > Len(CallEntered.cmds)
                          THEN <<c.cmds[Len(c.cmds)]>> ELSE <<>>
              IN  /\ call' = c
                  /\ IF c.res = "running"
                     THEN /\ timing_byte' = c.timing_byte
                          /\ last_cmd' = SentLast(cmds, SPI_SUB, wr.addr, Len(wr.data))
                          /\ prev_byte1' = SentPrev(cmds)
                                            /\ UNCHANGED << appConn, appData, calibration_step,
                                          error_message, lock, ui, panicked, env,
                                          ghosts, presses >>
                     ELSE SpiReturned(c, cmds)

(***************************************************************************)
(* update_stick_data (main.rs:233-256, controller.rs:157-196), run on      *)
(* every frame (main.rs:455-457).                                          *)
(***************************************************************************)
\* what read_stick_data can return on a frame: the reports waiting in the
\* queue are drained, and the blocking read is made when none of them was valid
PollResults ==
    UNION { { read_stick_data(burst, blocking) :
                blocking \in (IF Drain(burst, 0, NoStickData).last.some
                              THEN {NoData} ELSE ReadOutcomes) } :
            burst \in BurstsOf(ReadOutcomes \ {NoData}) }

UpdateStickData ==
    /\ ~panicked
    /\ controller = "Some"
    /\ LockFree
    /\ \E res \in PollResults :
             IF res.some
             THEN /\ stick_data' = res.data
                  /\ calibration_data' =
                       IF calibration_step \in {"CalibrateCenter", "CalibrateRange"}
                       THEN Update(calibration_data, res.data)
                       ELSE calibration_data
             ELSE UNCHANGED << stick_data, calibration_data >>
    /\ ui' = IF ui.pc = "commit" THEN [ui EXCEPT !.intruded = TRUE] ELSE ui
    /\ UNCHANGED << appConn, calibration_step, left_result, right_result,
                    left_deadzone, right_deadzone, outer_deadzone, error_message,
                    timing_byte, lock, panicked, env, last_cmd, prev_byte1,
                    ghosts, presses, call >>

(***************************************************************************)
(* Specifications.                                                         *)
(***************************************************************************)
\* the wizard, one step per handler and per write_spi_data call
Next ==
    \/ Connect
    \/ StartCalibration
    \/ NextStep
    \/ SetOuterDeadzone
    \/ WriteCalibration
    \/ WriteSpiData
    \/ UpdateStickData

Spec == Init /\ [][Next]_vars

\* the commit from Review, one step per attempt of write_spi_data
NextCommit ==
    \/ WriteCalibration
    \/ WriteSpiAttempt
    \/ UpdateStickData

SpecCommit == InitReview /\ [][NextCommit]_vars

(***************************************************************************)
(* The payloads of a commit as a function of its inputs                    *)
(* (controller.rs:231-298), applied to two commits of one controller.      *)
(***************************************************************************)
InitPayload ==
    /\ InitApp
    /\ InitIdle
    /\ env \in { [faulty |-> FALSE, samples |-> SamplesRest, overflow_checks |-> b] :
                   b \in BOOLEAN }
    /\ last_cmd = NoCmd
    /\ prev_byte1 = -1
    /\ probe \in { [ctype |-> t, a |-> a, b |-> b, out_a |-> <<>>, out_b |-> <<>>] :
                     t \in ControllerTypes, a \in CommitInputs, b \in CommitInputs }

\* the writes of write_calibration_to_device for the inputs i; none when the
\* first record's subtraction panics
PayloadsOf(ctype, i) ==
    IF env.overflow_checks /\ CommitUnderflows(ctype, i.left_cal, i.right_cal, 1)
    THEN <<>>
    ELSE CommitWrites(ctype, i.left_cal, i.right_cal, i.left_deadzone, i.right_deadzone)

EncodeCommit ==
    /\ probe.ctype # "None"
    /\ probe.out_a = <<>>
    /\ probe.out_b = <<>>
    /\ probe' = [probe EXCEPT !.out_a = PayloadsOf(probe.ctype, probe.a),
                              !.out_b = PayloadsOf(probe.ctype, probe.b)]
    /\ UNCHANGED << appConn, appData, calibration_step, error_message, timing_byte,
                    lock, ui, panicked, env, last_cmd, prev_byte1, ghosts, starts,
                    commits, call >>

NextPayload == EncodeCommit

SpecPayload == InitPayload /\ [][NextPayload]_vars

(***************************************************************************)
(* Properties of the payloads.                                             *)
(***************************************************************************)
\* the bytes a commit writes to an address
PayloadAt(out, addr) == out[CHOOSE i \in 1..Len(out) : out[i].addr = addr].data
\* the three 3-byte groups of a 9-byte record, the first one moved to the end
RotateGroups(p) == SubSeq(p, 4, 9) \o SubSeq(p, 1, 3)
\* the two commits of the probe have been computed
Encoded == probe.out_a # <<>> /\ probe.out_b # <<>>
\* the inputs of the two commits agree on the left stick / on the right stick
SameLeft ==
    /\ probe.a.left_cal = probe.b.left_cal
    /\ probe.a.left_deadzone = probe.b.left_deadzone
SameRight ==
    /\ probe.a.right_cal = probe.b.right_cal
    /\ probe.a.right_deadzone = probe.b.right_deadzone

\* C8 as stated: for a left Joy-Con the bytes written to the right slots (record
\* at 0x6046, parameter block at 0x609B) equal the bytes written to the left
\* slots (record at 0x603D, parameter block at 0x6089).
C8_MirrorByteIdentical ==
    (probe.ctype = "JoyConL" /\ Encoded) =>
        /\ PayloadAt(probe.out_a, 24646) = PayloadAt(probe.out_a, 24637)
        /\ PayloadAt(probe.out_a, 24731) = PayloadAt(probe.out_a, 24713)

\* C8 amended: for a left Joy-Con the two parameter blocks are byte-identical,
\* and the record at 0x6046 holds the three 3-byte groups of the record at
\* 0x603D in the right slot's order: the left record's second and third group,
\* then its first.
C8_MirrorSameGroups ==
    (probe.ctype = "JoyConL" /\ Encoded) =>
        /\ PayloadAt(probe.out_a, 24646) = RotateGroups(PayloadAt(probe.out_a, 24637))
        /\ PayloadAt(probe.out_a, 24731) = PayloadAt(probe.out_a, 24713)

\* a left Joy-Con's commit, computed from two different stick records
C8_Witness ==
    /\ probe.ctype = "JoyConL"
    /\ Encoded
    /\ probe.a.left_cal = RecordSwept
    /\ probe.a.right_cal = RecordOther
    /\ probe.a.left_deadzone # probe.a.right_deadzone
    /\ PayloadAt(probe.out_a, 24646) # PayloadAt(probe.out_a, 24637)

\* C9: for a left (right) Joy-Con, two commits that differ only in the right
\* (left) stick's record or deadzone write the same bytes to all four addresses.
C9_SingleSource ==
    Encoded =>
        /\ (probe.ctype = "JoyConL" /\ SameLeft) => probe.out_a = probe.out_b
        /\ (probe.ctype = "JoyConR" /\ SameRight) => probe.out_a = probe.out_b

\* two commits of a right Joy-Con that differ in the left record and deadzone
C9_Witness ==
    /\ probe.ctype = "JoyConR"
    /\ Encoded
    /\ SameRight
    /\ probe.a.left_cal # probe.b.left_cal
    /\ probe.a.left_deadzone # probe.b.left_deadzone
    /\ Len(probe.out_a) = 4

\* C10: for a Pro Controller, two commits that differ only in the left record
\* or deadzone write the same bytes to 0x6046 and 0x609B, and two commits that
\* differ only in the right record or deadzone write the same bytes to 0x603D
\* and 0x6089.
C10_ProIndependent ==
    (probe.ctype = "ProController" /\ Encoded) =>
        /\ SameRight =>
             /\ PayloadAt(probe.out_a, 24646) = PayloadAt(probe.out_b, 24646)
             /\ PayloadAt(probe.out_a, 24731) = PayloadAt(probe.out_b, 24731)
        /\ SameLeft =>
             /\ PayloadAt(probe.out_a, 24637) = PayloadAt(probe.out_b, 24637)
             /\ PayloadAt(probe.out_a, 24713) = PayloadAt(probe.out_b, 24713)

\* two commits of a Pro Controller that differ in the left stick only, and
\* write different bytes to the left slots
C10_Witness ==
    /\ probe.ctype = "ProController"
    /\ Encoded
    /\ SameRight
    /\ probe.a.left_cal # probe.b.left_cal
    /\ probe.a.left_deadzone # probe.b.left_deadzone
    /\ PayloadAt(probe.out_a, 24637) # PayloadAt(probe.out_b, 24637)
    /\ PayloadAt(probe.out_a, 24713) # PayloadAt(probe.out_b, 24713)

(***************************************************************************)
(* Properties of the commit, attempt by attempt.                           *)
(***************************************************************************)
\* a write_spi_data call has returned
Returned == call.res \in {"Ok", "HidError", "SpiWriteFailed"}

\* C1: a write_spi_data call polls at most 8 times after a send and sends at
\* most 20 times; it reports success only if one of its reads returned the
\* acknowledgement; when no read returns it and every device.write goes
\* through, the call has sent its command exactly 20 times when it returns,
\* and it returns SpiWriteFailed.
C1_RetryBudget ==
    /\ call.polls <= 8
    /\ call.sends <= 20
    /\ call.res = "Ok" => call.delivered
    /\ call.res = "SpiWriteFailed" => call.sends = 20
    /\ (Returned /\ ~call.delivered /\ call.res # "HidError") =>
           call.res = "SpiWriteFailed" /\ call.sends = 20
    /\ (call.res = "running" /\ ~call.delivered) => call.sends < 20

\* a call that was never acknowledged, after its 20th send and its 8 polls
C1_Witness ==
    /\ call.res = "SpiWriteFailed"
    /\ call.sends = 20
    /\ call.polls = 8
    /\ ~call.delivered

\* C3: while write_calibration runs, from its first write to the return of
\* its last, the handler holds the Mutex and no poll reads from the device;
\* in particular none does while a write_spi_data call is between a send and
\* its return.
C3_MutualExclusion ==
    /\ ui.pc = "commit" => lock = "ui"
    /\ call.res = "running" => ui.pc = "commit"
    /\ ~ui.intruded

\* a commit at its third write, between two sends of the call, the handler
\* holding the Mutex
C3_Witness ==
    /\ ui.pc = "commit"
    /\ ui.w = 3
    /\ call.res = "running"
    /\ call.sends = 2
    /\ lock = "ui"

(***************************************************************************)
(* Properties of the wizard.                                               *)
(***************************************************************************)
\* C2 as stated: byte1 of the first command of a session is 0, and byte1 of
\* every later command is one more, modulo 16, than byte1 of the command sent
\* before it, whichever of the three commands the two are.
C2_RollingCounter ==
    /\ (prev_byte1 = -1 /\ last_cmd.byte1 # -1) => last_cmd.byte1 = 0
    /\ prev_byte1 # -1 => last_cmd.byte1 = (prev_byte1 + 1) % 16

\* the (address, length) pairs of a commit, in the order they are to be written
ExpectedWrites == << <<24646, 9>>, <<24731, 3>>, <<24637, 9>>, <<24713, 3>> >>
AllOk(log) == \A i \in 1..Len(log) : log[i].res = "Ok"

\* C4: the write_spi_data calls of a commit go to 0x6046 (9 bytes), 0x609B
\* (3 bytes), 0x603D (9 bytes), 0x6089 (3 bytes) in this order, each one after
\* the one before it returned Ok, and a commit that reached Done made exactly
\* these four calls, for every controller type.
C4_CommitOrder ==
    /\ Len(spi_log) <= 4
    /\ \A i \in 1..Len(spi_log) :
         <<spi_log[i].addr, spi_log[i].len>> = ExpectedWrites[i]
    /\ \A i \in 2..Len(spi_log) : spi_log[i - 1].res = "Ok"
    /\ calibration_step = "Done" => Len(spi_log) = 4 /\ AllOk(spi_log)

\* a left Joy-Con's commit that reached Done
C4_Witness ==
    /\ calibration_step = "Done"
    /\ controller_type = "JoyConL"
    /\ Len(spi_log) = 4
    /\ AllOk(spi_log)

\* the last write_spi_data call of the commit returned an error
CommitFailed == spi_log # <<>> /\ spi_log[Len(spi_log)].res # "Ok"

\* C5: a write_spi_data call that fails is the last call of its commit; the
\* handler has then returned with the wizard in Review and an error message
\* set, and every write of the commit that returned Ok before is on the device
\* as it was written, no address having been written twice.
C5_CommitFailure ==
    /\ \A i \in 1..Len(spi_log) : spi_log[i].res # "Ok" => i = Len(spi_log)
    /\ CommitFailed =>
         /\ ui.pc = "idle"
         /\ lock = "free"
         /\ calibration_step = "Review"
         /\ error_message \in {"Failed to write: Failed to write SPI data",
                               "Failed to write: hid error"}
    /\ \A i \in 1..Len(spi_log), j \in 1..Len(spi_log) :
         i # j => spi_log[i].addr # spi_log[j].addr
    /\ \A i \in 1..Len(spi_log) :
         spi_log[i].res = "Ok" =>
           flash[spi_log[i].addr] =
             CommitWrites(controller_type, left_result, right_result,
                          left_deadzone, right_deadzone)[i].data

\* a commit whose third write failed after twenty attempts
C5_Witness ==
    /\ Len(spi_log) = 3
    /\ spi_log[3].res = "SpiWriteFailed"
    /\ spi_log[1].res = "Ok"
    /\ spi_log[2].res = "Ok"
    /\ calibration_step = "Review"
    /\ flash[24646] # <<>>
    /\ flash[24637] = <<>>

\* C6 as stated: two failed commits, one that had written nothing and one that
\* had written some of its payloads, differ in what the caller observes: the
\* error message or the step.
C6_PartialDistinct ==
    (first_failure.some /\ last_failure.some
       /\ first_failure.partial # last_failure.partial) =>
        <<first_failure.msg, first_failure.step>>
          # <<last_failure.msg, last_failure.step>>

\* the position of a step in the wizard
StepRank(step) ==
    CASE step = "Connect" -> 0
      [] step = "Connected" -> 1
      [] step = "CalibrateCenter" -> 2
      [] step = "CalibrateRange" -> 3
      [] step = "OuterDeadzoneChoice" -> 4
      [] step = "Review" -> 5
      [] step = "Done" -> 6

\* C7: every change of calibration_step moves it to the next step of Connect,
\* Connected, CalibrateCenter, CalibrateRange, OuterDeadzoneChoice, Review,
\* Done; no step changes it once it is Done; and the step that makes it Done
\* ends a commit whose four writes returned Ok.
C7_WizardOrder ==
    [][ /\ calibration_step' # calibration_step =>
              StepRank(calibration_step') = StepRank(calibration_step) + 1
        /\ calibration_step = "Done" => calibration_step' = "Done"
        /\ (calibration_step' = "Done" /\ calibration_step # "Done") =>
              Len(spi_log') = 4 /\ AllOk(spi_log') ]_vars

\* the wizard has gone through every step
C7_Witness ==
    /\ calibration_step = "Done"
    /\ outer_deadzone
    /\ left_result.xcenter = STICK_REST
    /\ ui.pc = "idle"

(***************************************************************************)
(* The codec against the stick decode (controller.rs:41-47, 166-171): a    *)
(* pair of 12-bit values is encoded, the three bytes are laid at report    *)
(* offsets 6-8 and 9-11, and the report is decoded.                        *)
(***************************************************************************)
\* every value of one position is paired with these values of the other
CodecCorners == {0, 1, 15, 16, 255, 256, 2652, AXIS_MAX}
CodecPairs ==
    ((0..AXIS_MAX) \X CodecCorners) \cup (CodecCorners \X (0..AXIS_MAX))

\* the untouched application, no handler in progress, a device without faults
InitPure ==
    /\ InitApp
    /\ InitIdle
    /\ env = [faulty |-> FALSE, samples |-> SamplesRest, overflow_checks |-> FALSE]
    /\ last_cmd = NoCmd
    /\ prev_byte1 = -1

\* what a step on the probe alone leaves unchanged
pureFrame ==
    << appConn, appData, calibration_step, error_message, timing_byte, lock, ui,
       panicked, env, last_cmd, prev_byte1, ghosts, starts, commits, call >>

InitCodec ==
    /\ InitPure
    /\ probe \in { [decoded |-> d, encoded |-> <<>>, sample |-> StickDataDefault] :
                     d \in CodecPairs }

EncodeDecode ==
    /\ probe.encoded = <<>>
    /\ LET encoded == encode_stick_params(probe.decoded)
       IN  probe' = [probe EXCEPT !.encoded = encoded,
                                  !.sample = DecodeStick(encoded \o encoded)]
    /\ UNCHANGED pureFrame

NextCodec == EncodeDecode

SpecCodec == InitCodec /\ [][NextCodec]_vars

\* C11: for every pair (v0, v1) of values in 0..0xFFF, the stick decoder
\* applied to the three bytes of encode_stick_params(v0, v1), at report
\* offsets 6-8 as well as 9-11, gives back exactly (v0, v1).
C11_RoundTrip ==
    probe.encoded # <<>> =>
        /\ Len(probe.encoded) = 3
        /\ \A i \in 1..3 : probe.encoded[i] \in 0..255
        /\ probe.sample.lx = probe.decoded[1]
        /\ probe.sample.ly = probe.decoded[2]
        /\ probe.sample.rx = probe.decoded[1]
        /\ probe.sample.ry = probe.decoded[2]

\* a pair whose nibbles all differ has made the round trip
C11_Witness ==
    /\ probe.decoded = <<2652, AXIS_MAX>>
    /\ probe.encoded = <<92, 250, 255>>
    /\ probe.sample.lx = 2652
    /\ probe.sample.ly = AXIS_MAX

(***************************************************************************)
(* The sampling phases (main.rs:84-113, 173-215, 233-256): a Pro           *)
(* Controller is connected and its input enabled; frames poll the sticks   *)
(* while the user advances from CalibrateCenter to Review.                 *)
(***************************************************************************)
InitSweep ==
    /\ InitRest
    /\ controller = "Some"
    /\ device_info = "info"
    /\ controller_type = "ProController"
    /\ has_left = HasLeft("ProController")
    /\ has_right = HasRight("ProController")
    /\ stick_data = StickDataDefault
    /\ calibration_step = "CalibrateCenter"
    /\ calibration_data = CalibrationDataNew
    /\ left_result = StickCalibrationDefault
    /\ right_result = StickCalibrationDefault
    /\ left_deadzone = 0
    /\ right_deadzone = 0
    /\ outer_deadzone = FALSE
    /\ error_message = "None"
    /\ timing_byte = 1
    /\ starts = 1
    /\ env \in { [faulty |-> FALSE, samples |-> SamplesSweep, overflow_checks |-> b] :
                   b \in BOOLEAN }
    /\ last_cmd = [byte1 |-> 0, sub |-> 3, addr |-> 0, len |-> 0]
    /\ prev_byte1 = InfoByte1

NextSweep ==
    \/ UpdateStickData
    \/ NextStep
    \/ SetOuterDeadzone

SpecSweep == InitSweep /\ [][NextSweep]_vars

\* update is called on the frames of these steps (main.rs:242-251)
InPhase == calibration_step \in {"CalibrateCenter", "CalibrateRange"}
\* the phase has taken a sample
Sampled == calibration_data # CalibrationDataNew
Axes == {"lx", "ly", "rx", "ry"}
ExtentMin(cd) == [lx |-> cd.min_lx, ly |-> cd.min_ly, rx |-> cd.min_rx, ry |-> cd.min_ry]
ExtentMax(cd) == [lx |-> cd.max_lx, ly |-> cd.max_ly, rx |-> cd.max_rx, ry |-> cd.max_ry]

\* C12: within one phase every step leaves each of the four minima no larger
\* and each of the four maxima no smaller than before, and once the phase has
\* taken a sample the latest sample lies between the minimum and the maximum
\* of its axis.
C12_Monotone ==
    /\ [](InPhase /\ Sampled =>
            \A a \in Axes :
                /\ ExtentMin(calibration_data)[a] <= stick_data[a]
                /\ stick_data[a] <= ExtentMax(calibration_data)[a])
    /\ [][(InPhase /\ calibration_step' = calibration_step) =>
            \A a \in Axes :
                /\ ExtentMin(calibration_data')[a] <= ExtentMin(calibration_data)[a]
                /\ ExtentMax(calibration_data')[a] >= ExtentMax(calibration_data)[a]]_vars

\* the range phase has widened its extent in both directions and the latest
\* sample is strictly inside it
C12_Witness ==
    /\ calibration_step = "CalibrateRange"
    /\ calibration_data.min_lx = SampleLow.lx
    /\ calibration_data.max_lx = SampleFull.lx
    /\ stick_data = SampleCenterHi

\* C13: after every update the recomputed centre of each axis is
\* (min + max) / 2 and the recomputed provisional deadzone of each stick is
\* (max - min) / 2 of that stick's running extent, on either of its axes.
C13_RecomputedDerived ==
    (InPhase /\ Sampled) =>
        LET cd == calibration_data
        IN  /\ cd.center_lx = (cd.min_lx + cd.max_lx) \div 2
            /\ cd.center_ly = (cd.min_ly + cd.max_ly) \div 2
            /\ cd.center_rx = (cd.min_rx + cd.max_rx) \div 2
            /\ cd.center_ry = (cd.min_ry + cd.max_ry) \div 2
            /\ cd.deadzone_l \in {(cd.max_lx - cd.min_lx) \div 2,
                                  (cd.max_ly - cd.min_ly) \div 2}
            /\ cd.deadzone_r \in {(cd.max_rx - cd.min_rx) \div 2,
                                  (cd.max_ry - cd.min_ry) \div 2}

\* C14: the bounds set_outer_deadzone leaves in Review are, per axis,
\* min(extent.min + padding, 0xFFF) and max(extent.max - padding, 0) of the
\* extent of the range phase, with padding 0x050 when the outer deadzone was
\* chosen and 0 otherwise: (0x100, 0xE00) gives (0x150, 0xDB0), (0x100, 0xF00)
\* gives (0x150, 0xEB0), and without padding the bounds are the raw extent.
C14_OuterPadding ==
    calibration_step = "Review" =>
        LET cd == calibration_data
            padding == IF outer_deadzone THEN 80 ELSE 0
            lo(m) == IF m + padding < 4095 THEN m + padding ELSE 4095
            hi(m) == IF m - padding > 0 THEN m - padding ELSE 0
        IN  /\ left_result.xmin = lo(cd.min_lx) /\ left_result.xmax = hi(cd.max_lx)
            /\ left_result.ymin = lo(cd.min_ly) /\ left_result.ymax = hi(cd.max_ly)
            /\ right_result.xmin = lo(cd.min_rx) /\ right_result.xmax = hi(cd.max_rx)
            /\ right_result.ymin = lo(cd.min_ry) /\ right_result.ymax = hi(cd.max_ry)
            /\ (outer_deadzone /\ cd.min_lx = 256 /\ cd.max_lx = 3584) =>
                   left_result.xmin = 336 /\ left_result.xmax = 3504
            /\ (outer_deadzone /\ cd.min_lx = 256 /\ cd.max_lx = 3840) =>
                   left_result.xmin = 336 /\ left_result.xmax = 3760
            /\ ~outer_deadzone =>
                   /\ left_result.xmin = cd.min_lx /\ left_result.xmax = cd.max_lx
                   /\ left_result.ymin = cd.min_ly /\ left_result.ymax = cd.max_ly

\* the range phase swept 0x100..0xE00 on the left x axis and the outer
\* deadzone was chosen
C14_Witness ==
    /\ calibration_step = "Review"
    /\ outer_deadzone
    /\ calibration_data.min_lx = 256
    /\ calibration_data.max_lx = 3584
    /\ left_result.xmin = 336
    /\ left_result.xmax = 3504

\* the centre phase saw lx over 0x780..0x880 and ly over 0x7A0..0x860, and the
\* user advances
CenterExampleAdvance ==
    /\ calibration_step = "CalibrateCenter"
    /\ calibration_step' = "CalibrateRange"
    /\ calibration_data.min_lx = 1920 /\ calibration_data.max_lx = 2176
    /\ calibration_data.min_ly = 1952 /\ calibration_data.max_ly = 2144

\* C15 as stated: with lx covering 0x780..0x880 and ly covering 0x7A0..0x860
\* in the centre phase, advancing gives xcenter = 0x800, ycenter = 0x830 and
\* deadzone = 0x080.
C15_CenterExampleAsStated ==
    [][CenterExampleAdvance =>
          /\ left_result'.xcenter = 2048
          /\ left_result'.ycenter = 2096
          /\ left_deadzone' = 128]_vars

\* C15: with lx covering 0x780..0x880 and ly covering 0x7A0..0x860 in the
\* centre phase, advancing gives xcenter = 0x800, ycenter = 0x800
\* ((0x7A0 + 0x860) / 2) and deadzone = 0x080.
C15_CenterExample ==
    [][CenterExampleAdvance =>
          /\ left_result'.xcenter = 2048
          /\ left_result'.ycenter = 2048
          /\ left_deadzone' = 128]_vars

\* the user has advanced from that centre phase (no other extent of the sweep
\* has this centre and this deadzone)
C15_Witness ==
    /\ calibration_step = "CalibrateRange"
    /\ left_result.xcenter = 2048
    /\ left_result.ycenter = 2048
    /\ left_deadzone = 128
    /\ right_deadzone = 64

\* xmin <= xcenter <= xmax and ymin <= ycenter <= ymax
RecordOrdered(cal) ==
    /\ cal.xmin <= cal.xcenter /\ cal.xcenter <= cal.xmax
    /\ cal.ymin <= cal.ycenter /\ cal.ycenter <= cal.ymax

\* the records write_calibration_to_device writes for the wizard's results
HandedToCommit ==
    LET f == FinalCalibration(controller_type, left_result, right_result,
                              left_deadzone, right_deadzone)
    IN  {f.left_cal, f.right_cal}

\* C16: every record that has reached Review and is handed to a commit
\* satisfies xmin <= xcenter <= xmax and ymin <= ycenter <= ymax.
C16_RecordInvariant ==
    (calibration_step = "Review" /\ ui.pc = "commit") =>
        \A cal \in HandedToCommit : RecordOrdered(cal)

\* C20: the step that advances from CalibrateCenter sets, for each stick,
\* xcenter = (min_x + max_x) / 2 and ycenter = (min_y + max_y) / 2 of the
\* extent of the centre phase and, when that extent holds a sample, the
\* deadzone to (max - min) / 2 of the stick's x axis, which is not half the
\* diagonal of the extent; the same step resets the extent to its seed (every
\* min 0xFFF, every max 0), so that the range phase starts from the seed.
C20_CenterDerivation ==
    [][(calibration_step = "CalibrateCenter" /\ calibration_step' = "CalibrateRange") =>
          LET cd == calibration_data
          IN  /\ left_result'.xcenter = (cd.min_lx + cd.max_lx) \div 2
              /\ left_result'.ycenter = (cd.min_ly + cd.max_ly) \div 2
              /\ right_result'.xcenter = (cd.min_rx + cd.max_rx) \div 2
              /\ right_result'.ycenter = (cd.min_ry + cd.max_ry) \div 2
              /\ cd.min_lx <= cd.max_lx => left_deadzone' = (cd.max_lx - cd.min_lx) \div 2
              /\ cd.min_rx <= cd.max_rx => right_deadzone' = (cd.max_rx - cd.min_rx) \div 2
              /\ \A a \in Axes : /\ ExtentMin(calibration_data')[a] = 4095
                                  /\ ExtentMax(calibration_data')[a] = 0]_vars

\* the user has advanced from a centre phase whose extent had a diagonal, and
\* the range phase has taken no sample yet
C20_Witness ==
    /\ calibration_step = "CalibrateRange"
    /\ left_result.xcenter = (SampleLow.lx + SampleWide.lx) \div 2
    /\ left_result.ycenter = (SampleLow.ly + SampleWide.ly) \div 2
    /\ left_deadzone = (SampleWide.lx - SampleLow.lx) \div 2
    /\ right_deadzone = (SampleWide.rx - SampleLow.rx) \div 2
    /\ calibration_data = CalibrationDataNew

(***************************************************************************)
(* read_stick_data as a function (controller.rs:157-196).  burst is what   *)
(* the zero-timeout reads return before one returns nothing: the reports   *)
(* buffered at call time, or an error; blocking is what the 20 ms read     *)
(* returns if it is made.                                                  *)
(***************************************************************************)
InitPoll ==
    /\ InitApp
    /\ InitIdle
    /\ env = [faulty |-> TRUE, samples |-> SamplesSweep, overflow_checks |-> FALSE]
    /\ last_cmd = NoCmd
    /\ prev_byte1 = -1
    /\ probe \in { [burst |-> b, blocking |-> r, returned |-> FALSE,
                     result |-> NoStickData, zero_reads |-> 0, blocking_reads |-> 0] :
                     b \in BurstsOf(ReadOutcomes \ {NoData}), r \in ReadOutcomes }

ReadStickData ==
    /\ ~probe.returned
    /\ probe' = [probe EXCEPT
                    !.returned = TRUE,
                    !.result = read_stick_data(probe.burst, probe.blocking),
                    !.zero_reads = Drain(probe.burst, 0, NoStickData).reads,
                    !.blocking_reads = BlockingReads(probe.burst)]
    /\ UNCHANGED pureFrame

NextPoll == ReadStickData

SpecPoll == InitPoll /\ [][NextPoll]_vars

\* the reports buffered at call time: those before the first failing read
Buffered(burst) ==
    LET bad == { i \in 1..Len(burst) : burst[i].err }
    IN  SubSeq(burst, 1, IF bad = {} THEN Len(burst)
                         ELSE (CHOOSE i \in bad : \A j \in bad : i <= j) - 1)
\* positions of the reports of at least 13 bytes
Usable(reports) == { i \in 1..Len(reports) : reports[i].len >= 13 }
\* the call returned the sample s
ReturnedSample(s) == probe.result.some /\ probe.result.data = s
\* the report r carries the sample s
Carries(r, s) == r.len >= 13 /\ r = StickReport(s)

\* C18: read_stick_data returns the sample of the last report of at least 13
\* bytes among the reports buffered at call time, without a blocking read; if
\* nothing was buffered it makes exactly one blocking read and returns that
\* report's sample if it has at least 13 bytes, and fails otherwise.
C18_LastBuffered ==
    probe.returned =>
        LET reports == Buffered(probe.burst)
            usable == Usable(reports)
        IN  /\ probe.zero_reads = Len(reports) + 1
            /\ usable # {} =>
                  LET last == CHOOSE i \in usable : \A j \in usable : j <= i
                  IN  /\ \E s \in env.samples :
                            Carries(reports[last], s) /\ ReturnedSample(s)
                      /\ probe.blocking_reads = 0
            /\ reports = <<>> =>
                  /\ probe.blocking_reads = 1
                  /\ IF ~probe.blocking.err /\ probe.blocking.len >= 13
                     THEN \E s \in env.samples :
                            Carries(probe.blocking, s) /\ ReturnedSample(s)
                     ELSE ~probe.result.some

\* two usable reports with different samples were buffered, a short one
\* after them, and the second one's sample was returned
C18_Witness ==
    /\ probe.returned
    /\ Len(probe.burst) = 2
    /\ probe.burst[1] = StickReport(SampleLow)
    /\ probe.burst[2] = StickReport(SampleFull)
    /\ ReturnedSample(SampleFull)
    /\ probe.blocking_reads = 0

(***************************************************************************)
(* remap_calibrated_axis (main.rs:383-393) on the arguments                *)
(* calibrated_visual gives it (main.rs:415-427): u16 values converted to   *)
(* f32 and divided by 4095.0.  An f32 between -2 and 2 that is a multiple  *)
(* of 2^-26 is written as the integer number of its 2^-26 units; that      *)
(* covers v / 4095.0 for v = 0 and for v >= 512, and the sums and          *)
(* differences of such values.  Every sum, difference and v / 4095.0 is    *)
(* rounded to the 24-bit significand of f32, to nearest, ties to even.     *)
(* The quotient of the two differences is kept as the fraction num/den     *)
(* with den > 0, as +inf or -inf (a non-zero numerator over zero) or as    *)
(* NaN (zero over zero): f32 rounds it, but rounding is monotonic and      *)
(* keeps 0, 0.5 and 1, so the ends the clamp produces and the value 0.5    *)
(* are those of f32.  clamp passes NaN through.                            *)
(***************************************************************************)
\* 1.0 in units of 2^-26
F32One == 2 ^ 26

\* k to the nearest multiple of step, ties to the even multiple
RoundTo(k, step) ==
    LET a == IF k < 0 THEN -k ELSE k
        q == a \div step
        r == a % step
        up == 2 * r > step \/ (2 * r = step /\ q % 2 = 1)
        m == (IF up THEN q + 1 ELSE q) * step
    IN  IF k < 0 THEN -m ELSE m

\* the f32 nearest to k units: 24 significant bits
F32(k) ==
    LET a == IF k < 0 THEN -k ELSE k
    IN  IF a < 2 ^ 24 THEN k
        ELSE IF a < 2 ^ 25 THEN RoundTo(k, 2)
        ELSE IF a < 2 ^ 26 THEN RoundTo(k, 4)
        ELSE RoundTo(k, 8)

RECURSIVE LongDiv(_, _, _)
\* n more binary digits of r / 4095: quotient q so far, remainder r
LongDiv(q, r, n) ==
    IF n = 0 THEN [q |-> q, r |-> r]
    ELSE IF 2 * r >= AXIS_MAX THEN LongDiv(2 * q + 1, 2 * r - AXIS_MAX, n - 1)
    ELSE LongDiv(2 * q, 2 * r, n - 1)

\* main.rs:415-424: v as f32 / 4095.0, for v = 0 or v >= 512
Pct(v) ==
    LET d == LongDiv(0, v, 26)
        step == IF d.q >= 2 ^ 25 THEN 4 ELSE IF d.q >= 2 ^ 24 THEN 2 ELSE 1
        base == (d.q \div step) * step
        rem == (d.q - base) * AXIS_MAX + d.r
        half == step * AXIS_MAX
        up == 2 * rem > half \/ (2 * rem = half /\ (base \div step) % 2 = 1)
    IN  IF up THEN base + step ELSE base

\* n / d in f32, unrounded
Quot(n, d) ==
    IF d > 0 THEN [kind |-> "num", num |-> n, den |-> d]
    ELSE IF d < 0 THEN [kind |-> "num", num |-> -n, den |-> -d]
    ELSE IF n > 0 THEN [kind |-> "inf", num |-> 1, den |-> 1]
    ELSE IF n < 0 THEN [kind |-> "-inf", num |-> 0, den |-> 1]
    ELSE [kind |-> "nan", num |-> 0, den |-> 1]
\* x / 2.0
Halved(x) == IF x.kind = "num" THEN [x EXCEPT !.den = 2 * x.den] ELSE x
\* x + 0.5
PlusHalf(x) ==
    IF x.kind = "num" THEN [x EXCEPT !.num = 2 * x.num + x.den, !.den = 2 * x.den]
    ELSE x
\* the constant 0.5
Half == [kind |-> "num", num |-> 1, den |-> 2]

\* a remap that returns the branch's value as it is
NoClamp(x) == x
\* f32::clamp(0.0, 1.0)
Clamp(x) ==
    CASE x.kind = "nan" -> x
      [] x.kind = "inf" -> [kind |-> "num", num |-> 1, den |-> 1]
      [] x.kind = "-inf" -> [kind |-> "num", num |-> 0, den |-> 1]
      [] x.num < 0 -> [kind |-> "num", num |-> 0, den |-> 1]
      [] x.num > x.den -> [kind |-> "num", num |-> 1, den |-> 1]
      [] OTHER -> x

\* main.rs:385-388: the divisor of the branch taken, 1 where none divides
RemapDivisor(value, min, center, max, deadzone) ==
    IF value < F32(center - deadzone) THEN F32(F32(center - deadzone) - min)
    ELSE IF value > F32(center + deadzone) THEN F32(F32(max - center) - deadzone)
    ELSE 1

\* main.rs:383-393; .clamp applies to the whole if expression
remap_calibrated_axis(value, min, center, max, deadzone) ==
    Clamp(IF value < F32(center - deadzone)
          THEN Halved(Quot(F32(value - min), F32(F32(center - deadzone) - min)))
          ELSE IF value > F32(center + deadzone)
               THEN PlusHalf(Halved(Quot(F32(F32(value - deadzone) - center),
                                         F32(F32(max - center) - deadzone))))
               ELSE Half)

\* raw values and calibration fields: the ends of the 12-bit range and values
\* 0x550 apart, so that centre - deadzone and centre + deadzone meet a bound
RemapValues == {0, 680, 1360, 2040, 3400, AXIS_MAX}
RemapDeadzones == {0, 1360}

InitRemap ==
    /\ InitPure
    /\ probe \in { [value |-> v, min |-> lo, center |-> c, max |-> hi, deadzone |-> d,
                     mapped |-> FALSE, divisor |-> 1, result |-> Half] :
                     v \in RemapValues, lo \in RemapValues, c \in RemapValues,
                     hi \in RemapValues, d \in RemapDeadzones }

\* main.rs:426: remap_calibrated_axis(raw_x_pct, xmin_pct, xcenter_pct, ...)
Remap ==
    /\ ~probe.mapped
    /\ probe' = [probe EXCEPT
                    !.mapped = TRUE,
                    !.divisor = RemapDivisor(Pct(probe.value), Pct(probe.min),
                                             Pct(probe.center), Pct(probe.max),
                                             Pct(probe.deadzone)),
                    !.result = remap_calibrated_axis(Pct(probe.value), Pct(probe.min),
                                                     Pct(probe.center), Pct(probe.max),
                                                     Pct(probe.deadzone))]
    /\ UNCHANGED pureFrame

NextRemap == Remap

SpecRemap == InitRemap /\ [][NextRemap]_vars

\* the result is the number n/d
ResultIs(n, d) ==
    probe.result.kind = "num" /\ probe.result.num * d = n * probe.result.den

\* C19: for min < center < max and deadzone = 0, remap(center) = 0.5,
\* remap(max) = 1.0 and remap(min) = 0.0, and for every raw input the result
\* is a number in [0, 1].
C19_RemapBoundaries ==
    (probe.mapped /\ probe.min < probe.center /\ probe.center < probe.max
       /\ probe.deadzone = 0) =>
        /\ probe.value = probe.center => ResultIs(1, 2)
        /\ probe.value = probe.max => ResultIs(1, 1)
        /\ probe.value = probe.min => ResultIs(0, 1)
        /\ probe.result.kind = "num"
        /\ 0 <= probe.result.num
        /\ probe.result.num <= probe.result.den

\* an ordered record without deadzone, the raw value at its maximum
C19_Witness ==
    /\ probe.mapped
    /\ probe.min = 680 /\ probe.center = 2040 /\ probe.max = 3400
    /\ probe.deadzone = 0
    /\ probe.value = 3400
    /\ ResultIs(1, 1)

\* C26: when center - deadzone = min, a raw value below the deadzone band is
\* mapped to 0, and when max = center + deadzone, a raw value above the band
\* is mapped to 1, in both cases without a division by zero.
C26_DegenerateGuarded ==
    probe.mapped =>
        /\ (probe.center - probe.deadzone = probe.min /\ probe.value < probe.min) =>
               ResultIs(0, 1) /\ probe.divisor # 0
        /\ (probe.center + probe.deadzone = probe.max /\ probe.value > probe.max) =>
               ResultIs(1, 1) /\ probe.divisor # 0

(***************************************************************************)
(* Errors of the wizard's operations (main.rs:136-160, 217-231).           *)
(***************************************************************************)
\* connect has returned with a Controller whose get_device_info failed, and
\* no handler has run since
InfoFailed ==
    /\ calibration_step = "Connected"
    /\ starts = 0
    /\ controller = "Some"
    /\ device_info = "None"

\* the last commit has returned on a write_spi_data that failed, and no
\* handler has run since
CommitJustFailed ==
    /\ ui.pc = "idle"
    /\ calibration_step = "Review"
    /\ spi_log # <<>>
    /\ spi_log[Len(spi_log)].res # "Ok"

\* C17: a failure of get_device_info inside connect and a failure of
\* write_spi_data inside a commit leave an error in error_message for the
\* caller to see.
C17_ErrorsSurfaced ==
    /\ InfoFailed => error_message # "None"
    /\ CommitJustFailed => error_message # "None"

(***************************************************************************)
(* Layout of the commit payloads (controller.rs:239-298).                  *)
(***************************************************************************)
\* the record of the first commit's inputs that goes to the left slot and the
\* one that goes to the right slot (controller.rs:246-256)
LeftSlotRecord == IF probe.ctype = "JoyConR" THEN probe.a.right_cal ELSE probe.a.left_cal
RightSlotRecord == IF probe.ctype = "JoyConL" THEN probe.a.left_cal ELSE probe.a.right_cal
\* the codec packing of three pairs
Packed(p1, p2, p3) ==
    encode_stick_params(p1) \o encode_stick_params(p2) \o encode_stick_params(p3)

\* C21: for every record with xmin <= xcenter <= xmax and ymin <= ycenter <=
\* ymax, the nine bytes written to 0x603D pack (xmax-xcenter, ymax-ycenter),
\* (xcenter, ycenter), (xcenter-xmin, ycenter-ymin) in that order, and the
\* nine bytes written to 0x6046 pack (xcenter, ycenter), (xcenter-xmin,
\* ycenter-ymin), (xmax-xcenter, ymax-ycenter) in that order.
C21_FieldOrder ==
    probe.out_a # <<>> =>
        LET l == LeftSlotRecord
            r == RightSlotRecord
        IN  /\ RecordOrdered(l) =>
                  PayloadAt(probe.out_a, 24637) =
                      Packed(<<l.xmax - l.xcenter, l.ymax - l.ycenter>>,
                             <<l.xcenter, l.ycenter>>,
                             <<l.xcenter - l.xmin, l.ycenter - l.ymin>>)
            /\ RecordOrdered(r) =>
                  PayloadAt(probe.out_a, 24646) =
                      Packed(<<r.xcenter, r.ycenter>>,
                             <<r.xcenter - r.xmin, r.ycenter - r.ymin>>,
                             <<r.xmax - r.xcenter, r.ymax - r.ycenter>>)

\* a Pro Controller's commit of two different ordered records
C21_Witness ==
    /\ probe.ctype = "ProController"
    /\ probe.out_a # <<>>
    /\ probe.a.left_cal = RecordSwept
    /\ probe.a.right_cal = RecordOther
    /\ PayloadAt(probe.out_a, 24637) # PayloadAt(probe.out_a, 24646)

\* C22: the block written to 0x6089 packs (left deadzone, 0xF80) and the
\* block written to 0x609B packs (right deadzone, 0xF80), deadzone first in
\* both; for a Pro Controller with equal deadzones the two blocks are
\* byte-identical.
C22_ParamPacking ==
    (probe.ctype = "ProController" /\ probe.out_a # <<>>) =>
        /\ PayloadAt(probe.out_a, 24713) =
               encode_stick_params(<<probe.a.left_deadzone, 3968>>)
        /\ PayloadAt(probe.out_a, 24731) =
               encode_stick_params(<<probe.a.right_deadzone, 3968>>)
        /\ probe.a.left_deadzone = probe.a.right_deadzone =>
               PayloadAt(probe.out_a, 24713) = PayloadAt(probe.out_a, 24731)

\* the values the commit gives to encode_stick_params for the record cal
\* (controller.rs:268-278, 285-295): four differences and the two centres
CalValues(cal) ==
    {cal.xmax - cal.xcenter, cal.ymax - cal.ycenter, cal.xcenter, cal.ycenter,
     cal.xcenter - cal.xmin, cal.ycenter - cal.ymin}

\* C23: while a commit is in progress, every value it passes to the codec
\* (the differences and centres of the records handed over, the deadzones and
\* the range ratio) lies in 0..0xFFF; in particular no difference is below 0.
C23_TwelveBitDomain ==
    ui.pc = "commit" =>
        /\ \A cal \in HandedToCommit : \A v \in CalValues(cal) : v \in 0..4095
        /\ left_deadzone \in 0..4095
        /\ right_deadzone \in 0..4095

(***************************************************************************)
(* The extent after the range phase, the advance without samples and the   *)
(* error banner (main.rs:162-195, 217-256, 729-735).                       *)
(***************************************************************************)
\* C25: the step from CalibrateRange to OuterDeadzoneChoice leaves the running
\* extent as it is, no step taken in OuterDeadzoneChoice, Review or Done
\* changes it, and the bounds set_outer_deadzone computes are those of the
\* extent it finds.
C25_ExtentRetained ==
    [][ /\ (calibration_step = "CalibrateRange"
            /\ calibration_step' = "OuterDeadzoneChoice") =>
               calibration_data' = calibration_data
        /\ calibration_step \in {"OuterDeadzoneChoice", "Review", "Done"} =>
               calibration_data' = calibration_data
        /\ (calibration_step = "OuterDeadzoneChoice" /\ calibration_step' = "Review") =>
               LET pad == IF outer_deadzone' THEN 80 ELSE 0
                   lo(m) == IF m + pad < 4095 THEN m + pad ELSE 4095
                   hi(m) == IF m - pad > 0 THEN m - pad ELSE 0
               IN  /\ left_result'.xmin = lo(calibration_data.min_lx)
                   /\ left_result'.xmax = hi(calibration_data.max_lx)
                   /\ right_result'.ymin = lo(calibration_data.min_ry)
                   /\ right_result'.ymax = hi(calibration_data.max_ry) ]_vars

\* the range phase saw the stick at rest only, and a frame of Done has read a
\* moved stick since
C25_Witness ==
    /\ calibration_step = "Done"
    /\ stick_data = SampleHigh
    /\ calibration_data.min_lx = STICK_REST
    /\ calibration_data.max_lx = STICK_REST
    /\ left_result.xmax = STICK_REST

\* C28: advancing out of CalibrateCenter never fails, and the deadzones it
\* leaves are (max - min) / 2 without underflow, hence in 0..0x7FF.
C28_AdvanceWithoutSamples ==
    /\ (calibration_step = "CalibrateCenter" /\ ui.pc = "idle") => ~panicked
    /\ calibration_step \in {"CalibrateRange", "OuterDeadzoneChoice", "Review", "Done"} =>
           /\ left_deadzone \in 0..2047
           /\ right_deadzone \in 0..2047

\* C29: no error message is set in a state where the wizard step is Done,
\* and none is left set by a start_calibration that succeeded.
C29_StaleErrorCleared ==
    /\ calibration_step = "Done" => error_message = "None"
    /\ (calibration_step = "CalibrateCenter" /\ calibration_data = CalibrationDataNew
          /\ ~panicked) => error_message = "None"

(***************************************************************************)
(* One attempt of get_device_info and one of write_spi_data               *)
(* (controller.rs:116-140, 203-227) as functions of the reports their      *)
(* reads return, short reports included.                                   *)
(***************************************************************************)
WindowReports ==
    {InfoReport, AckReport, StickReport(StickDataDefault), StrayReport, ShortReport,
     ShortInfoReport, HeadInfoReport, NoData, ReadErr}

InitWindow ==
    /\ InitPure
    /\ probe \in { [window |-> w, polled |-> FALSE,
                     info |-> InfoCallStart, spi |-> SpiCallStart(0)] :
                     w \in BurstsOf(WindowReports) }

PollWindow ==
    /\ ~probe.polled
    /\ probe' = [probe EXCEPT
                    !.polled = TRUE,
                    !.info = InfoAttempt(InfoCallStart, TRUE, probe.window),
                    !.spi = SpiAttempt(SpiCallStart(0), TRUE, probe.window)]
    /\ UNCHANGED pureFrame

SpecWindow == InitWindow /\ [][PollWindow]_vars

\* C24: a polling loop takes a read (the last one the attempt made) for the matching response only if that
\* read returned a report that reaches the offsets inspected (0x0D and 0x0E,
\* and up to 0x18 for the device info) and carries the matching bytes itself,
\* and the firmware and MAC are decoded from that same report.
C24_ShortReads ==
    probe.polled =>
        /\ probe.info.res = "Ok" =>
               LET r == ReadAt(probe.window, probe.info.polls)
               IN  /\ r.len > OFF_INFO_END
                   /\ r.d = INFO_ACK /\ r.e = INFO_SUB
                   /\ probe.info.info = r.tail
        /\ probe.spi.res = "Ok" =>
               LET r == ReadAt(probe.window, probe.spi.polls)
               IN  /\ r.len > OFF_SUB
                   /\ r.d = SPI_ACK /\ r.e = SPI_SUB

(***************************************************************************)
(* The write_spi_data calls of one commit (controller.rs:258-261, 198-229) *)
(* against a device that acknowledges every command it receives once, in   *)
(* the order received.  The queue holds, for every command whose           *)
(* acknowledgement the host has not read yet, the write and the attempt    *)
(* that sent it; taken holds, for every call that returned Ok, the command *)
(* whose acknowledgement made it return.  The controller lock is held for  *)
(* the whole commit, so nothing else reads the device in between.          *)
(***************************************************************************)
InitAck ==
    /\ InitPure
    /\ probe \in { [writes |-> CommitWrites(t, i.left_cal, i.right_cal,
                                            i.left_deadzone, i.right_deadzone),
                     w |-> 1, c |-> SpiCallStart(tb), queue |-> <<>>, taken |-> <<>>] :
                     t \in ControllerTypes \ {"None"}, i \in CommitInputs, tb \in {0, 15} }

\* one iteration of `for _ in 0..MAX_ATTEMPTS`: the command is sent, and the
\* reads of the polling window return the oldest outstanding acknowledgement,
\* possibly after an input report, or none (nothing, or input reports only);
\* the device is at most MaxLate polling windows late
AckAttempt ==
    /\ probe.w <= Len(probe.writes)
    /\ probe.c.res = "running"
    /\ \E window \in {<<AckReport>>, <<StickReport(StickDataDefault), AckReport>>}
                       \cup (IF probe.c.attempt < MaxLate
                             THEN {<<>>, [i \in 1..MAX_RETRIES |-> StickReport(StickDataDefault)]}
                             ELSE {}) :
          LET c == SpiAttempt(probe.c, TRUE, window)
              sent == Append(probe.queue, [w |-> probe.w, attempt |-> probe.c.attempt + 1])
          IN  probe' = [probe EXCEPT
                          !.c = c,
                          !.queue = IF c.res = "Ok" THEN Tail(sent) ELSE sent,
                          !.taken = IF c.res = "Ok" THEN Append(@, Head(sent)) ELSE @]
    /\ UNCHANGED pureFrame

\* controller.rs:258-261: the call returned Ok and the next write is made
AckNextWrite ==
    /\ probe.w <= Len(probe.writes)
    /\ probe.c.res = "Ok"
    /\ probe' = [probe EXCEPT !.w = @ + 1, !.c = SpiCallStart(probe.c.timing_byte)]
    /\ UNCHANGED pureFrame

NextAck == AckAttempt \/ AckNextWrite

SpecAck == InitAck /\ [][NextAck]_vars

\* C27: every write_spi_data call that returns Ok does so on the
\* acknowledgement of a command that this same call sent, never on the
\* acknowledgement of a command of an earlier write of the commit.
C27_NoStaleAck ==
    \A k \in 1..Len(probe.taken) : probe.taken[k].w = k

(***************************************************************************)
(* read_stick_data (controller.rs:157-196) read by read.  queue holds what *)
(* the device has buffered, more the reports it can still add while the    *)
(* call drains, and feeding tells a device that has a report available at  *)
(* every zero-timeout read.  buffered counts the reports made available to *)
(* the call.                                                               *)
(***************************************************************************)
InitDrain ==
    /\ InitApp
    /\ InitIdle
    /\ env = [faulty |-> TRUE, samples |-> SamplesSweep, overflow_checks |-> FALSE]
    /\ last_cmd = NoCmd
    /\ prev_byte1 = -1
    /\ probe \in { [queue |-> q, more |-> m, feeding |-> f, pc |-> "drain",
                     buffered |-> Cardinality({ i \in 1..Len(q) : ~q[i].err }),
                     zero_reads |-> 0, blocking_reads |-> 0,
                     last |-> NoStickData, result |-> NoStickData] :
                     q \in BurstsOf(ReadOutcomes \ {NoData}), m \in 0..1, f \in BOOLEAN }

\* a variant of the read below that leaves the report read in the queue
ZeroReadKeeps ==
    /\ probe.pc = "drain"
    /\ \E r \in IF probe.feeding THEN Reports
                 ELSE IF probe.queue # <<>> THEN {Head(probe.queue)} ELSE {NoData} :
          LET n == IF probe.zero_reads < MaxBurst + 3 THEN probe.zero_reads + 1
                   ELSE probe.zero_reads
          IN  IF ~r.err /\ r.len > 0
              THEN probe' = [probe EXCEPT
                               !.zero_reads = n,
                               !.last = IF r.len > 12
                                        THEN [some |-> TRUE, data |-> DecodeStick(r.stick)]
                                        ELSE @]
              ELSE probe' = [probe EXCEPT
                               !.zero_reads = n,
                               !.queue = IF @ # <<>> THEN Tail(@) ELSE @,
                               !.pc = IF probe.last.some THEN "returned" ELSE "blocking",
                               !.result = probe.last]
    /\ UNCHANGED pureFrame

\* controller.rs:162-176: one iteration of the drain loop, and lines 178-179
\* when it breaks.  The count of reads stops at MaxBurst + 3.
ZeroRead ==
    /\ probe.pc = "drain"
    /\ \E r \in IF probe.feeding THEN Reports
                 ELSE IF probe.queue # <<>> THEN {Head(probe.queue)} ELSE {NoData} :
          LET n == IF probe.zero_reads < MaxBurst + 3 THEN probe.zero_reads + 1
                   ELSE probe.zero_reads
              rest == IF probe.feeding \/ probe.queue = <<>> THEN probe.queue
                      ELSE Tail(probe.queue)
          IN  IF ~r.err /\ r.len > 0
              THEN probe' = [probe EXCEPT
                               !.zero_reads = n,
                               !.queue = rest,
                               !.last = IF r.len > 12
                                        THEN [some |-> TRUE, data |-> DecodeStick(r.stick)]
                                        ELSE @]
              ELSE probe' = [probe EXCEPT
                               !.zero_reads = n,
                               !.queue = rest,
                               !.pc = IF probe.last.some THEN "returned" ELSE "blocking",
                               !.result = probe.last]
    /\ UNCHANGED pureFrame

\* controller.rs:182-194: the 20 ms read, which returns what is buffered or
\* what arrives in time
BlockingRead ==
    /\ probe.pc = "blocking"
    /\ \E r \in IF probe.queue # <<>> THEN {Head(probe.queue)} ELSE ReadOutcomes :
          probe' = [probe EXCEPT
                      !.blocking_reads = @ + 1,
                      !.queue = IF @ # <<>> THEN Tail(@) ELSE @,
                      !.pc = "returned",
                      !.result = IF ~r.err /\ r.len > 12
                                 THEN [some |-> TRUE, data |-> DecodeStick(r.stick)]
                                 ELSE NoStickData]
    /\ UNCHANGED pureFrame

\* the device buffers one more report while the call drains
Arrive ==
    /\ probe.pc = "drain"
    /\ ~probe.feeding
    /\ probe.more > 0
    /\ \E r \in Reports :
          probe' = [probe EXCEPT !.queue = Append(@, r), !.more = @ - 1,
                                 !.buffered = @ + 1]
    /\ UNCHANGED pureFrame

NextDrain == ZeroRead \/ BlockingRead \/ Arrive

SpecDrain == InitDrain /\ [][NextDrain]_vars

\* the thread that called read_stick_data keeps running: every read_timeout
\* returns when its timeout (0 ms, 20 ms) has elapsed
SpecDrainFair == SpecDrain /\ WF_vars(ZeroRead) /\ WF_vars(BlockingRead)

\* C30: against a device that buffers finitely many reports every call of
\* read_stick_data returns, after at most one zero-timeout read per buffered
\* report plus one and then at most one blocking read; against a device
\* that has a report available at every zero-timeout read the call stays
\* in the drain loop for ever.
C30_Terminates ==
    /\ [](~probe.feeding => <>(probe.pc = "returned"))
    /\ [](~probe.feeding => /\ probe.zero_reads <= probe.buffered + 1
                            /\ probe.blocking_reads <= 1
                            /\ probe.pc = "drain" => probe.blocking_reads = 0)
    /\ [](probe.feeding => probe.pc = "drain")

\* two reports were buffered, three zero-timeout reads were made and the call
\* returned without a blocking read
C30_Witness ==
    /\ ~probe.feeding
    /\ probe.pc = "returned"
    /\ probe.buffered = 2
    /\ probe.zero_reads = 3
    /\ probe.blocking_reads = 0
    /\ probe.result.some

=============================================================================
